---------------------------- MODULE Spec2Model ----------------------------
(***************************************************************************)
(* CVAlyze: the resume-to-record pipeline of the ETL service               *)
(*                                                                         *)
(*   - clean_text            (app/api/v1/preprocess.py)                    *)
(*   - CvExtractor.extract   (app/api/v1/rag_extractor.py)                 *)
(*   - get_active_api_key    (app/api/v1/cv_process.py)                    *)
(*   - process_cvs           (app/api/v1/cv_process.py)                    *)
(*                                                                         *)
(* and the gateway's two HTTP middlewares (gateway/app/main.py).           *)
(*                                                                         *)
(* A text is a sequence of characters; a character is a one-element        *)
(* string for a printable ASCII character and the name of its code point   *)
(* ("U+2022") otherwise; NonAsciiChars lists the ones above U+007F.        *)
(***************************************************************************)
EXTENDS Integers, Sequences, FiniteSets, TLC

(***************************************************************************)
(* Characters                                                              *)
(***************************************************************************)

\* NBSP, ellipsis, bullets, dashes, quotes, mojibake letters, pictographs.
NonAsciiChars ==
    { "U+00A0", "U+2026", "U+00E9", "U+00E2", "U+20AC",
      "U+2013", "U+2014", "U+201C", "U+201D", "U+2018", "U+2019",
      "U+2022", "U+25CF", "U+25A0", "U+25AA",
      "U+260E", "U+2709", "U+FE0F",
      "U+1F4CD", "U+1F4E7", "U+1F4F1", "U+1F310", "U+1F4BC", "U+1F419",
      "U+1F3E0", "U+1F600" }

\* [\U00010000-\U0010ffff]
AstralChars ==
    { "U+1F4CD", "U+1F4E7", "U+1F4F1", "U+1F310", "U+1F4BC", "U+1F419",
      "U+1F3E0", "U+1F600" }

\* \s on text that is ASCII only
SpaceChars == { " ", "\t", "\n", "\r" }

\* \d
DigitChars == { "0", "1", "2", "3", "4", "5", "6", "7", "8", "9" }

\* [,.!?;:]
PunctChars == { ",", ".", "!", "?", ";", ":" }

(***************************************************************************)
(* re.sub and str.replace on character sequences                           *)
(***************************************************************************)

\* s[i..] starts with the literal lit
StartsAt(s, i, lit) ==
    /\ i + Len(lit) - 1 <= Len(s)
    /\ \A k \in 1..Len(lit) : s[i + k - 1] = lit[k]

\* length of the longest run of characters of class cls starting at s[i]
RECURSIVE RunLen(_, _, _)
RunLen(s, i, cls) ==
    IF i > Len(s) \/ s[i] \notin cls THEN 0 ELSE 1 + RunLen(s, i + 1, cls)

\* re.sub / str.replace: scan left to right; where lens[i] > 0 a match of that
\* length starts at i and is replaced by reps[i]; matches do not overlap.
RECURSIVE SubFrom(_, _, _, _)
SubFrom(s, lens, reps, i) ==
    IF i > Len(s) THEN << >>
    ELSE IF lens[i] > 0 THEN reps[i] \o SubFrom(s, lens, reps, i + lens[i])
    ELSE << s[i] >> \o SubFrom(s, lens, reps, i + 1)

Sub(s, lens, reps) == SubFrom(s, lens, reps, 1)

\* re.sub(r"[cls]", rep, s)
SubChar(s, cls, rep) ==
    Sub(s, [i \in 1..Len(s) |-> IF s[i] \in cls THEN 1 ELSE 0],
           [i \in 1..Len(s) |-> rep])

\* re.sub(r"[cls]{n,}", rep, s)
SubRun(s, cls, n, rep) ==
    Sub(s, [i \in 1..Len(s) |->
               IF RunLen(s, i, cls) >= n THEN RunLen(s, i, cls) ELSE 0],
           [i \in 1..Len(s) |-> rep])

\* s.replace(lit, rep)
Replace(s, lit, rep) ==
    Sub(s, [i \in 1..Len(s) |-> IF StartsAt(s, i, lit) THEN Len(lit) ELSE 0],
           [i \in 1..Len(s) |-> rep])

\* unicodedata.normalize("NFKC", .) of one character
NfkcChar(c) ==
    CASE c = "U+00A0" -> << " " >>
      [] c = "U+2026" -> << ".", ".", "." >>
      [] OTHER        -> << c >>

RECURSIVE Nfkc(_)
Nfkc(s) == IF s = << >> THEN << >> ELSE NfkcChar(Head(s)) \o Nfkc(Tail(s))

\* match length of \(cid:\d+\) at s[i], 0 when there is none
CidLen(s, i) ==
    LET lit == << "(", "c", "i", "d", ":" >>
        d   == RunLen(s, i + 5, DigitChars)
    IN  IF /\ StartsAt(s, i, lit)
           /\ d >= 1
           /\ i + 5 + d <= Len(s)
           /\ s[i + 5 + d] = ")"
        THEN 5 + d + 1 ELSE 0

\* match length of the alternation of literals a€– | a€— | – | — at s[i]
DashLen(s, i) ==
    CASE StartsAt(s, i, << "U+00E2", "U+20AC", "U+2013" >>) -> 3
      [] StartsAt(s, i, << "U+00E2", "U+20AC", "U+2014" >>) -> 3
      [] StartsAt(s, i, << "U+2013" >>) -> 1
      [] StartsAt(s, i, << "U+2014" >>) -> 1
      [] OTHER -> 0

\* match length of ---\s*Page\s*\d+\s*--- at s[i]
PageLen(s, i) ==
    LET dashes == << "-", "-", "-" >>
        page   == << "P", "a", "g", "e" >>
        \* \s may be any Unicode space here: NBSP is gone after NFKC
        p1 == i + 3
        w1 == RunLen(s, p1, SpaceChars)
        p2 == p1 + w1
        p3 == p2 + 4
        w2 == RunLen(s, p3, SpaceChars)
        p4 == p3 + w2
        d  == RunLen(s, p4, DigitChars)
        p5 == p4 + d
        w3 == RunLen(s, p5, SpaceChars)
        p6 == p5 + w3
    IN  IF /\ StartsAt(s, i, dashes)
           /\ StartsAt(s, p2, page)
           /\ d >= 1
           /\ StartsAt(s, p6, dashes)
        THEN p6 + 3 - i ELSE 0

\* the icon table, in the order of the dict
Replacements ==
    << << << "U+1F4CD" >>, << "L", "o", "c", "a", "t", "i", "o", "n", ":" >> >>,
       << << "U+1F4E7" >>, << "E", "m", "a", "i", "l", ":" >> >>,
       << << "U+1F4F1" >>, << "P", "h", "o", "n", "e", ":" >> >>,
       << << "U+1F310" >>, << "W", "e", "b", "s", "i", "t", "e", ":" >> >>,
       << << "U+1F4BC" >>, << "L", "i", "n", "k", "e", "d", "I", "n", ":" >> >>,
       << << "U+1F419" >>, << "G", "i", "t", "H", "u", "b", ":" >> >>,
       << << "U+1F3E0" >>, << "A", "d", "d", "r", "e", "s", "s", ":" >> >>,
       << << "U+260E", "U+FE0F" >>, << "P", "h", "o", "n", "e", ":" >> >>,
       << << "U+2709", "U+FE0F" >>, << "E", "m", "a", "i", "l", ":" >> >> >>

RECURSIVE ReplaceIcons(_, _)
ReplaceIcons(s, k) ==
    IF k > Len(Replacements) THEN s
    ELSE ReplaceIcons(Replace(s, Replacements[k][1], Replacements[k][2]), k + 1)

\* \s([,.!?;:]) -> \1
SubSpacePunct(s) ==
    Sub(s, [i \in 1..Len(s) |->
               IF s[i] \in SpaceChars /\ i < Len(s) /\ s[i + 1] \in PunctChars
               THEN 2 ELSE 0],
           [i \in 1..Len(s) |-> IF i < Len(s) THEN << s[i + 1] >> ELSE << >>])

\* str.strip()
RECURSIVE LStrip(_)
LStrip(s) ==
    IF s # << >> /\ Head(s) \in SpaceChars THEN LStrip(Tail(s)) ELSE s

RECURSIVE RStrip(_)
RStrip(s) ==
    IF s # << >> /\ s[Len(s)] \in SpaceChars
    THEN RStrip(SubSeq(s, 1, Len(s) - 1)) ELSE s

Strip(s) == RStrip(LStrip(s))

(***************************************************************************)
(* clean_text                                                              *)
(***************************************************************************)
clean_text(text) ==
    LET t1  == Nfkc(text)
        t2  == Sub(t1, [i \in 1..Len(t1) |-> CidLen(t1, i)],
                       [i \in 1..Len(t1) |-> << >>])
        t3  == Sub(t2, [i \in 1..Len(t2) |-> DashLen(t2, i)],
                       [i \in 1..Len(t2) |-> << "-" >>])
        t4  == SubChar(t3, { "U+201C", "U+201D" }, << "\"" >>)
        t5  == SubChar(t4, { "U+2018", "U+2019" }, << "'" >>)
        t6  == SubRun(t5, { "U+2022" }, 1, << "U+2022" >>)
        t7  == Sub(t6, [i \in 1..Len(t6) |-> PageLen(t6, i)],
                       [i \in 1..Len(t6) |-> << " " >>])
        t8  == ReplaceIcons(t7, 1)
        t9  == SubChar(t8, { "U+2022", "U+25CF", "U+25A0", "U+25AA" }, << "-" >>)
        t10 == SubRun(t9, { "-", "_" }, 3, << " " >>)
        t11 == SubRun(t10, { "\n" }, 2, << "\n" >>)
        t12 == SubRun(t11, { " ", "\t" }, 1, << " " >>)
        t13 == SubChar(t12, AstralChars, << " " >>)
        t14 == SubRun(t13, NonAsciiChars, 1, << " " >>)
        t15 == SubSpacePunct(t14)
        t16 == SubRun(t15, SpaceChars, 2, << " " >>)
    IN  Strip(t16)

(***************************************************************************)
(* Inputs of clean_text: texts built from at most MaxPieces pieces          *)
(***************************************************************************)
MaxPieces == 4

Pieces ==
    { << "a" >>, << " " >>, << "\n" >>, << "," >>, << "-" >>, << "1" >>,
      << ")" >>, << "(", "c", "i", "d", ":" >>, << "-", "-", "-" >>,
      << "P", "a", "g", "e" >>,
      << "U+2022" >>, << "U+2014" >>, << "U+00E9" >>, << "U+00A0" >>,
      << "U+1F4CD" >> }

RECURSIVE Concat(_)
Concat(ss) == IF ss = << >> THEN << >> ELSE Head(ss) \o Concat(Tail(ss))

\* the texts of at most n pieces
Texts(n) == { Concat(ps) : ps \in UNION { [1..k -> Pieces] : k \in 0..n } }

(***************************************************************************)
(* JSON values as Python sees them after json.loads                        *)
(***************************************************************************)
None == [t |-> "null"]
Str(s) == [t |-> "str", s |-> s]
List(xs) == [t |-> "list", xs |-> xs]
Dict(d) == [t |-> "dict", d |-> d]
Num(n) == [t |-> "num", n |-> n]
\* an exception travelling up to the nearest except clause
Exc == [t |-> "exc"]

IsStr(v) == v.t = "str"
IsList(v) == v.t = "list"
IsDict(v) == v.t = "dict"

\* bool(v)
Truthy(v) ==
    CASE v.t = "null" -> FALSE
      [] v.t = "str"  -> v.s # << >>
      [] v.t = "list" -> v.xs # << >>
      [] v.t = "dict" -> DOMAIN v.d # {}
      [] v.t = "num"  -> v.n # 0
      [] OTHER        -> FALSE

\* d.get(key)
Get(d, key) == IF key \in DOMAIN d THEN d[key] ELSE None

UpperLetters ==
    << "A", "B", "C", "D", "E", "F", "G", "H", "I", "J", "K", "L", "M",
       "N", "O", "P", "Q", "R", "S", "T", "U", "V", "W", "X", "Y", "Z" >>

LowerLetters ==
    << "a", "b", "c", "d", "e", "f", "g", "h", "i", "j", "k", "l", "m",
       "n", "o", "p", "q", "r", "s", "t", "u", "v", "w", "x", "y", "z" >>

\* [a-zA-Z]
LetterChars ==
    { UpperLetters[i] : i \in 1..Len(UpperLetters) }
        \cup { LowerLetters[i] : i \in 1..Len(LowerLetters) }

\* str.lower()
LowerChar(c) ==
    IF \E i \in 1..Len(UpperLetters) : UpperLetters[i] = c
    THEN LowerLetters[CHOOSE i \in 1..Len(UpperLetters) : UpperLetters[i] = c]
    ELSE c

Lower(s) == [i \in 1..Len(s) |-> LowerChar(s[i])]

NullStr == << "n", "u", "l", "l" >>
HttpStr == << "h", "t", "t", "p" >>
HttpsPrefix == << "h", "t", "t", "p", "s", ":", "/", "/" >>

\* the keys the prompt asks for, and the keys of the fallback record
SchemaKeys ==
    { "name", "profession", "phone_number", "email", "location",
      "github_link", "linkedin_link", "skills", "education", "experience",
      "projects", "certifications", "achievements" }

\* {key: None for key in fallback_keys}
FallbackRecord == [k \in SchemaKeys |-> None]

(***************************************************************************)
(* CvExtractor.clean_empty_lists_as_none                                   *)
(***************************************************************************)

\* the test taking no string for a null
IsNullString_Never(v) == FALSE

\* isinstance(v, str) and v.strip().lower() == "null"
IsNullString(v) == IsStr(v) /\ Lower(Strip(v.s)) = NullStr

RECURSIVE SumSeq(_)
SumSeq(ns) == IF ns = << >> THEN 0 ELSE Head(ns) + SumSeq(Tail(ns))

\* SelectSeq with a set of kept indices
RECURSIVE KeepFrom(_, _, _)
KeepFrom(xs, keep, i) ==
    IF i > Len(xs) THEN << >>
    ELSE (IF i \in keep THEN << xs[i] >> ELSE << >>) \o KeepFrom(xs, keep, i + 1)

\* the value written to project["links"]
FixedLinks(links) ==
    CASE links = None \/ links = Str(NullStr) \/ links = Str(<< >>) -> List(<< >>)
      [] IsStr(links) ->
            LET clean_link == Strip(links.s)
            IN  IF clean_link # << >> /\ Lower(clean_link) # NullStr
                THEN List(<< Str(clean_link) >>) ELSE List(<< >>)
      [] IsList(links) ->
            List(KeepFrom(links.xs,
                          { i \in 1..Len(links.xs) :
                              /\ links.xs[i] # None
                              /\ links.xs[i] # Str(NullStr)
                              /\ (~IsStr(links.xs[i]) \/ Strip(links.xs[i].s) # << >>) },
                          1))
      [] OTHER -> List(<< >>)

\* one element of the projects list after the loop body
FixedProject(project) ==
    IF IsDict(project)
    THEN Dict([k \in DOMAIN project.d \cup { "links" } |->
                 IF k = "links" THEN FixedLinks(Get(project.d, "links"))
                 ELSE project.d[k]])
    ELSE project

\* the value of data[key] after the loop body for (key, value)
CleanedValue(key, value) ==
    CASE value = None -> None
      [] IsStr(value) ->
            IF Lower(Strip(value.s)) = NullStr \/ Strip(value.s) = << >>
            THEN None ELSE value
      [] IsList(value) ->
            IF Len(value.xs) = 0 THEN None
            ELSE IF \A i \in 1..Len(value.xs) :
                        value.xs[i] = None \/ IsNullString(value.xs[i])
            THEN None
            ELSE IF key = "projects"
            THEN List([i \in 1..Len(value.xs) |-> FixedProject(value.xs[i])])
            ELSE value
      [] OTHER -> value

\* data.items() raises on anything but a dict
clean_empty_lists_as_none(data) ==
    IF ~IsDict(data) THEN Exc
    ELSE Dict([k \in DOMAIN data.d |-> CleanedValue(k, data.d[k])])

(***************************************************************************)
(* CvExtractor.normalize_links                                             *)
(***************************************************************************)

\* github.startswith("http") raises on a value that is not a string
LinkRaises(v) == Truthy(v) /\ ~IsStr(v)

NormalizedLink(v) ==
    IF Truthy(v) /\ IsStr(v) /\ ~StartsAt(v.s, 1, HttpStr)
    THEN Str(HttpsPrefix \o Strip(v.s)) ELSE v

normalize_links(data) ==
    IF \/ LinkRaises(Get(data.d, "github_link"))
       \/ LinkRaises(Get(data.d, "linkedin_link"))
    THEN Exc
    ELSE Dict([k \in DOMAIN data.d |->
                 IF k \in { "github_link", "linkedin_link" }
                 THEN NormalizedLink(data.d[k]) ELSE data.d[k]])

(***************************************************************************)
(* CvExtractor.extract                                                     *)
(*                                                                         *)
(* A completion-service outcome is                                         *)
(*   [k |-> "neterr"]   requests.post(...) or .json() raises               *)
(*   [k |-> "nocand"]   the body has no candidates[0].content.parts[0].text*)
(*   [k |-> "text", raw |-> chars, doc |-> value]   the candidate text,    *)
(*       in which the character "{}" stands for the text of the JSON       *)
(*       document doc                                                      *)
(***************************************************************************)
DocChar == "{}"
\* three backticks (U+0060, which a TLA+ string cannot hold)
Fence == << "U+0060", "U+0060", "U+0060" >>

\* match length of ^```[a-zA-Z]*|```$ at s[i]
FenceLen(s, i) ==
    CASE i = 1 /\ StartsAt(s, 1, Fence) -> 3 + RunLen(s, 4, LetterChars)
      [] /\ StartsAt(s, i, Fence)
         /\ \/ i + 2 = Len(s)
            \/ (i + 3 = Len(s) /\ s[Len(s)] = "\n") -> 3
      [] OTHER -> 0

\* re.sub(r"^```[a-zA-Z]*|```$", "", raw_text).strip()
StripFence(raw) ==
    Strip(Sub(raw, [i \in 1..Len(raw) |-> FenceLen(raw, i)],
                   [i \in 1..Len(raw) |-> << >>]))

\* json.loads: the text of one document, or the literal null; else it raises
json_loads(txt, doc) ==
    CASE txt = << DocChar >> -> doc
      [] txt = NullStr       -> None
      [] OTHER               -> Exc

\* the body of the try block
ExtractTry(resp) ==
    IF resp.k # "text" THEN Exc
    ELSE LET data == json_loads(StripFence(resp.raw), resp.doc)
         IN  IF data = Exc THEN Exc
             ELSE LET cleaned == clean_empty_lists_as_none(data)
                  IN  IF cleaned = Exc THEN Exc ELSE normalize_links(cleaned)

\* extract without its except clause
extract_NoExcept(resp) == ExtractTry(resp)

\* extract: what the call returns, or Exc when it raises
extract(resp) ==
    LET r == ExtractTry(resp)
    IN  IF r = Exc THEN Dict(FallbackRecord) ELSE r

(***************************************************************************)
(* Completion-service outcomes the extractor is run on                     *)
(***************************************************************************)
ScalarVals == { None, Str(<< "a" >>), Str(<< " ", "N", "u", "l", "l" >>) }

LinkVals ==
    { None, Str(<< "g", "." >>), Str(<< " ", "g" >>), Str(HttpStr \o << ":" >>),
      Num(5), Num(0), List(<< Str(<< "g" >>) >>) }

ListVals ==
    { None, List(<< >>), List(<< Str(<< "a" >>) >>),
      List(<< None, Str(NullStr) >>), List(<< Str(<< >>), Str(<< "a" >>) >>) }

ProjectVals ==
    { None, List(<< >>),
      List(<< Dict([name |-> Str(<< "p" >>)]) >>),
      List(<< Dict([name |-> Str(<< "p" >>), links |-> Str(<< " ", "u" >>)]) >>),
      List(<< Dict([name |-> Str(<< "p" >>),
                    links |-> List(<< None, Str(<< "u" >>), Str(<< >>) >>)]),
              None >>),
      List(<< Dict([name |-> Str(<< "p" >>), links |-> Num(5)]),
              Dict([name |-> Str(<< "q" >>),
                    links |-> List(<< Num(0), Str(NullStr), Str(<< " " >>),
                                      Str(<< "u" >>) >>)]) >>) }

ScalarKeys == { "name", "profession", "phone_number", "email", "location" }
LinkKeys == { "github_link", "linkedin_link" }
ListKeys == { "skills", "education", "experience", "certifications", "achievements" }

\* the sets of keys a response object may carry
KeySets ==
    { SchemaKeys, SchemaKeys \ { "skills", "projects" }, { "name" }, { },
      SchemaKeys \cup { "error" } }

Doc(ks, sv, lv, xv, pv) ==
    Dict([k \in ks |->
            CASE k \in ScalarKeys -> sv
              [] k \in LinkKeys   -> lv
              [] k \in ListKeys   -> xv
              [] k = "projects"   -> pv
              [] OTHER            -> Str(<< "e" >>)])

Docs ==
    { Doc(ks, sv, lv, xv, pv) :
        ks \in KeySets, sv \in ScalarVals, lv \in LinkVals,
        xv \in ListVals, pv \in ProjectVals }
        \cup { List(<< Str(<< "a" >>) >>), Num(5), Str(<< "a" >>) }

\* candidate texts around the document: bare, fenced, fenced with a stray tail
RawTexts ==
    { << DocChar >>,
      Fence \o << "j", "s", "o", "n", "\n", DocChar, "\n" >> \o Fence,
      Fence \o << "\n", DocChar, "\n" >> \o Fence \o << "\n" >>,
      << " " >> \o Fence \o << DocChar >> \o Fence,
      << DocChar >> \o Fence \o << " ", "a" >>,
      << "S", "o", "r", "r", "y" >>,
      NullStr,
      << >> }

Responses ==
    { [k |-> "neterr"], [k |-> "nocand"] }
        \cup { [k |-> "text", raw |-> r, doc |-> d] : r \in RawTexts, d \in Docs }

(***************************************************************************)
(* extract_text and process_single_cv                                      *)
(*                                                                         *)
(* A file is [filename |-> chars, valid |-> whether its bytes are a        *)
(* document of the format its extension names, text |-> the text in it].   *)
(***************************************************************************)

\* an exception carrying str(e)
Raise(msg) == [t |-> "raise", msg |-> msg]
IsRaise(v) == v.t = "raise"

\* os.path.splitext(filename)[1]: from the last dot, unless the name starts there
SplitExt(filename) ==
    LET dots == { i \in 1..Len(filename) : filename[i] = "." }
        last == CHOOSE i \in dots : \A j \in dots : j <= i
    IN  IF dots = {} THEN << >>
        ELSE IF \A j \in 1..(last - 1) : filename[j] = "." THEN << >>
        ELSE SubSeq(filename, last, Len(filename))

\* extract_text(file_obj, filename): the text, or the exception raised
extract_text(file) ==
    IF file.filename = << >>
    THEN Raise(<< "Cannot determine file extension" >>)
    ELSE LET ext == Lower(SplitExt(file.filename))
         IN  CASE ext = << ".", "p", "d", "f" >> ->
                    IF file.valid THEN Str(file.text)
                    ELSE Raise(<< "cannot open broken document" >>)
               [] ext = << ".", "d", "o", "c", "x" >> ->
                    IF file.valid THEN Str(file.text)
                    ELSE Raise(<< "File is not a zip file" >>)
               [] ext = << ".", "t", "x", "t" >> -> Str(file.text)
               [] OTHER -> Raise(<< "Unsupported file format: " >> \o ext)

\* {"error": str(e), "file": filename}
ProcessingError(msg, filename) ==
    Dict([k \in { "error", "file" } |->
            IF k = "error" THEN Str(msg) ELSE Str(filename)])

\* process_single_cv with a task failure escaping the task
process_single_cv_NoCatch(file, resp) ==
    LET text == extract_text(file)
    IN  IF IsRaise(text) THEN Exc ELSE extract(resp)

\* process_single_cv: the record, or the ProcessingError of the file
process_single_cv(file, resp) ==
    LET text == extract_text(file)
    IN  IF IsRaise(text) THEN ProcessingError(text.msg, file.filename)
        ELSE extract(resp)

(***************************************************************************)
(* The table: pd.DataFrame(...).reindex(...).dropna(how='all')             *)
(***************************************************************************)

\* float('nan'): what pandas puts where a record has no value for a column
NaN == [t |-> "nan"]
Float(v) == [t |-> "float", v |-> v]

\* pd.isna
IsNA(v) == v = None \/ v = NaN

\* bool(x) of a cell: nan and the coordinates are truthy
CellTruthy(x) == x = NaN \/ x.t = "float" \/ Truthy(x)

\* one record as a row over the 13 expected columns
Reindex(r) == [k \in SchemaKeys |-> IF k \in DOMAIN r.d THEN r.d[k] ELSE NaN]

HasError(r) == "error" \in DOMAIN r.d

\* the partition keeping every result as a record
AllCvData_All(results) == results

\* all_cv_data = [r for r in results if "error" not in r]
AllCvData(results) ==
    KeepFrom(results, { i \in 1..Len(results) : ~HasError(results[i]) }, 1)

\* errors = [r for r in results if "error" in r]
Errors(results) ==
    KeepFrom(results, { i \in 1..Len(results) : HasError(results[i]) }, 1)

\* the table with its all-null rows kept
DropNA_KeepAll(rows) == rows

\* df.dropna(how='all')
DropNA(rows) ==
    KeepFrom(rows, { i \in 1..Len(rows) : \E k \in SchemaKeys : ~IsNA(rows[i][k]) }, 1)

DataFrame(results) ==
    LET data == AllCvData(results)
    IN  DropNA([i \in 1..Len(data) |-> Reindex(data[i])])

(***************************************************************************)
(* Enrichment: get_lat_lon and get_gender                                  *)
(***************************************************************************)

\* get_lat_lon(location, retries=3, delay=1)
Retries == 3

DefaultGeo == [latitude |-> Float("20.5937"), longitude |-> Float("78.9629"),
               country |-> Str(<< "India" >>)]

\* the test, were it  location is None
Falsy_NoneOnly(v) == v = None

\* not location
Falsy(v) == ~CellTruthy(v)

\* a retry on every exception of the geocoder
IsTimeout_AnyError(outcome) == outcome \in { "timeout", "error" }

\* except GeocoderTimedOut: the exception the attempt is repeated on
IsTimeout(outcome) == outcome = "timeout"

\* the while loop from attempt number `attempt`; geo[k] is what the k-th
\* geocode call does: "found", "found_nocountry", "notfound", "timeout", "error"
\* what get_lat_lon did, in order, in n attempts that timed out: the call,
\* then time.sleep(delay) in the except clause
RECURSIVE Waited(_)
Waited(n) == IF n = 0 THEN << >> ELSE Waited(n - 1) \o << "geocode", "sleep" >>

RECURSIVE GeoLoop(_, _, _)
GeoLoop(geo, attempt, calls) ==
    IF ~(attempt < Retries)
    THEN [geo |-> DefaultGeo, calls |-> calls, sleeps |-> attempt,
          events |-> Waited(attempt)]
    ELSE CASE geo[calls + 1] = "found" ->
                [geo |-> [latitude |-> Float("lat"), longitude |-> Float("lon"),
                          country |-> Str(<< "Country" >>)],
                 calls |-> calls + 1, sleeps |-> attempt,
                 events |-> Waited(attempt) \o << "geocode" >>]
           [] geo[calls + 1] = "found_nocountry" ->
                [geo |-> [latitude |-> Float("lat"), longitude |-> Float("lon"),
                          country |-> DefaultGeo.country],
                 calls |-> calls + 1, sleeps |-> attempt,
                 events |-> Waited(attempt) \o << "geocode" >>]
           [] IsTimeout(geo[calls + 1]) -> GeoLoop(geo, attempt + 1, calls + 1)
           [] OTHER ->
                [geo |-> DefaultGeo, calls |-> calls + 1, sleeps |-> attempt,
                 events |-> Waited(attempt) \o << "geocode" >>]

get_lat_lon(location, geo) ==
    IF Falsy(location)
    THEN [geo |-> DefaultGeo, calls |-> 0, sleeps |-> 0, events |-> << >>]
    ELSE GeoLoop(geo, 0, 0)

\* get_gender handing on the null gender of the answer
get_gender_NullPass(name, gd) ==
    IF gd = "error" THEN Str(<< "unknown" >>)
    ELSE IF gd = "null" THEN None ELSE Str(<< gd >>)

\* get_gender(name): gd is what genderize answers: a gender, "null" or "error"
get_gender(name, gd) ==
    IF gd \in { "error", "null" } THEN Str(<< "unknown" >>) ELSE Str(<< gd >>)

EnrichedKeys == SchemaKeys \cup { "latitude", "longitude", "country", "gender" }

\* one row after lines 239-242
Enrich(row, geo, gd) ==
    LET g == get_lat_lon(row["location"], geo).geo
    IN  [k \in EnrichedKeys |->
            CASE k = "latitude"  -> g.latitude
              [] k = "longitude" -> g.longitude
              [] k = "country"   -> g.country
              [] k = "gender"    -> get_gender(row["name"], gd)
              [] OTHER           -> row[k]]

(***************************************************************************)
(* sanitize_dataframe_for_bigquery and _load_to_bigquery_sync              *)
(***************************************************************************)

\* a DataFrame handed over as a value
Table(rows) == [t |-> "table", rows |-> rows]

\* the test without its comparison to the empty string
KeptItem_NotEmpty(item) == item # None /\ item # Str(NullStr)

\* the test  item is not None and item != '' and item != 'null'
KeptItem(item) == item # None /\ item # Str(<< >>) /\ item # Str(NullStr)

FilterItems(xs) == KeepFrom(xs, { i \in 1..Len(xs) : KeptItem(xs[i]) }, 1)

\* a list column other than projects, a non-list cell left as it is
SanitizeList_KeepNonList(x) ==
    IF IsList(x) THEN List(FilterItems(x.xs)) ELSE x

\* a list column other than projects
SanitizeList(x) ==
    IF CellTruthy(x) /\ IsList(x) THEN List(FilterItems(x.xs)) ELSE List(<< >>)

\* (project.get('links') or []) iterated: a string yields its characters
LinksIterated(project) ==
    LET links == Get(project.d, "links")
    IN  IF ~Truthy(links) THEN << >>
        ELSE IF IsList(links) THEN links.xs
        ELSE IF IsStr(links) THEN [i \in 1..Len(links.s) |-> Str(<< links.s[i] >>)]
        ELSE IF IsDict(links)
        THEN LET ks  == DOMAIN links.d
                 ord == CHOOSE f \in [1..Cardinality(ks) -> ks] :
                            \A i, j \in 1..Cardinality(ks) : i # j => f[i] # f[j]
             IN  [i \in 1..Cardinality(ks) |-> Str(<< ord[i] >>)]
        ELSE << >>

\* iterating the links raises: a number is not iterable
LinksRaise(project) ==
    LET links == Get(project.d, "links")
    IN  Truthy(links) /\ links.t = "num"

\* {**project, 'links': [...]}
SanitizeProject(project) ==
    Dict([k \in DOMAIN project.d \cup { "links" } |->
            IF k = "links" THEN List(FilterItems(LinksIterated(project)))
            ELSE project.d[k]])

\* the projects column; Exc when an element is no dict (project.get raises)
SanitizeProjects(x) ==
    IF ~(CellTruthy(x) /\ IsList(x)) THEN List(<< >>)
    ELSE IF \E i \in 1..Len(x.xs) : ~IsDict(x.xs[i]) \/ LinksRaise(x.xs[i]) THEN Exc
    ELSE List([i \in 1..Len(x.xs) |-> SanitizeProject(x.xs[i])])

SanitizedColumns ==
    { "skills", "experience", "projects", "certifications", "achievements",
      "education" }

\* sanitize_dataframe_for_bigquery on one row
SanitizeRow(row) ==
    [k \in DOMAIN row |->
        CASE k = "projects" -> SanitizeProjects(row[k])
          [] k \in SanitizedColumns -> SanitizeList(row[k])
          [] OTHER -> row[k]]

\* sanitize_dataframe_for_bigquery: the table, or Exc when it raises
sanitize_dataframe_for_bigquery(rows) ==
    IF \E i \in 1..Len(rows) : SanitizeProjects(rows[i]["projects"]) = Exc
    THEN Exc
    ELSE Table([i \in 1..Len(rows) |-> SanitizeRow(rows[i])])

CoercedColumns ==
    { "skills", "experience", "projects", "certifications", "achievements" }

\* lines 169-173: x if isinstance(x, list) else []
CoerceRow(row) ==
    [k \in DOMAIN row |->
        IF k \in CoercedColumns /\ ~IsList(row[k]) THEN List(<< >>) ELSE row[k]]

\* the table _load_to_bigquery_sync hands to the client, or Exc
LoadTable(rows) ==
    sanitize_dataframe_for_bigquery([i \in 1..Len(rows) |-> CoerceRow(rows[i])])


(***************************************************************************)
(* State                                                                   *)
(***************************************************************************)
VARIABLES
    nText,      \* Text Normalizer: the text, after nPasses runs of clean_text
    nPrev,      \* the text before the last run
    nPasses,    \* number of runs of clean_text so far
    xPc,        \* Structured Extractor: "idle" | "returned" | "raised"
    xResp,      \* the completion-service outcome of the call
    xOut,       \* what extract returned
    now,             \* datetime.now(), in minutes
    active_api_key,  \* _active_api_key
    key_checked_at,  \* _key_checked_at
    gk,              \* the get_active_api_key call of each caller
    bPc,             \* process_cvs: "idle" | "cred" | "tasks" | "loading" |
                     \*   "mailing" | "returned" | "raised"
    files,           \* its argument
    taskResp,        \* the completion-service outcome each task met
    results,         \* what the tasks returned, in input order
    df,              \* the table
    json_response,   \* json_response
    bOut,            \* the value process_cvs returned
    bErr,            \* what made process_cvs raise
    loadResult,      \* "none" | "ok" | "failed": the warehouse load
    warehouse,       \* the tables appended to the warehouse
    calls,           \* number of calls made to each collaborator
    fPc,             \* a helper called on its own: "idle" | "returned" | "raised"
    fIn,             \* its arguments, and what its collaborator will do
    fOut,            \* what it returned
    uPc,             \* upload_cvs: "idle" | "reading" | "processing" | "responded"
    uFiles,          \* the uploaded files
    uStatus,         \* the status code of the response
    uDetail,         \* the detail of an error response, up to its first colon
    uReads,          \* number of file.read() calls made
    gPc,             \* gateway: "idle" | "middleware" | "router" | "responded"
    gReq,            \* the request
    gStatus,         \* the status code of the response
    gDetail,         \* its detail
    gTrace,          \* the middlewares the request entered, then where the
                     \*   router took it: "handler" | "router"
    gUser            \* request.state.user

vars == << nText, nPrev, nPasses, xPc, xResp, xOut,
           now, active_api_key, key_checked_at, gk,
           bPc, files, taskResp, results, df, json_response, bOut, bErr,
           loadResult, warehouse, calls, fPc, fIn, fOut,
           uPc, uFiles, uStatus, uDetail, uReads,
           gPc, gReq, gStatus, gDetail, gTrace, gUser >>

normVars == << nText, nPrev, nPasses >>
extrVars == << xPc, xResp, xOut >>
credVars == << now, active_api_key, key_checked_at, gk >>
batchVars == << bPc, files, taskResp, results, df, json_response, bOut, bErr,
               loadResult, warehouse, calls >>
fnVars == << fPc, fIn, fOut >>
uploadVars == << uPc, uFiles, uStatus, uDetail, uReads >>
gwVars == << gPc, gReq, gStatus, gDetail, gTrace, gUser >>

NoStatus == 0

UploadInit ==
    /\ uPc = "idle"
    /\ uFiles = << >>
    /\ uStatus = NoStatus
    /\ uDetail = ""
    /\ uReads = 0

NoRequest ==
    [method |-> "", path |-> << >>, query |-> << >>, authorization |-> None,
     user_agent |-> None]

GatewayInit ==
    /\ gPc = "idle"
    /\ gReq = NoRequest
    /\ gStatus = NoStatus
    /\ gDetail = ""
    /\ gTrace = << >>
    /\ gUser = ""

NoArgs == [f |-> "none"]

FnInit(inputs) ==
    /\ fPc = "idle"
    /\ fIn \in inputs
    /\ fOut = None

NoCalls ==
    [extract_text |-> 0, completion |-> 0, geocode |-> 0, genderize |-> 0,
     load |-> 0, email |-> 0]

NoOut == [jsonCv |-> << >>, errors |-> << >>]

BatchInit ==
    /\ bPc = "idle"
    /\ files = << >>
    /\ taskResp = << >>
    /\ results = << >>
    /\ df = << >>
    /\ json_response = << >>
    /\ bOut = NoOut
    /\ bErr = "none"
    /\ loadResult = "none"
    /\ warehouse = << >>
    /\ calls = NoCalls

MaxPasses == 2

NoResp == [k |-> "none"]

NormInit(texts) ==
    /\ nText \in texts
    /\ nPrev = nText
    /\ nPasses = 0

ExtrInit ==
    /\ xPc = "idle"
    /\ xResp = NoResp
    /\ xOut = None

\* text = clean_text(text), as process_single_cv applies it to extracted text
CleanText ==
    /\ nPasses < MaxPasses
    /\ nPrev' = nText
    /\ nText' = clean_text(nText)
    /\ nPasses' = nPasses + 1
    /\ UNCHANGED << extrVars, credVars, batchVars, fnVars, uploadVars, gwVars >>

\* extractor.extract(text): one call against one completion-service outcome
Extract(resp) ==
    /\ xPc = "idle"
    /\ xResp' = resp
    /\ LET r == extract(resp)
       IN  /\ xOut' = (IF r = Exc THEN None ELSE r)
           /\ xPc' = (IF r = Exc THEN "raised" ELSE "returned")
    /\ UNCHANGED << normVars, credVars, batchVars, fnVars, uploadVars, gwVars >>


(***************************************************************************)
(* Credential Selector: get_active_api_key                                 *)
(***************************************************************************)

\* API_KEYS = [os.getenv("API_KEY1"), os.getenv("API_KEY2")]
API_KEYS == << "API_KEY1", "API_KEY2" >>

\* the value None of _active_api_key and of a rejected probe
NoKey == "None"
\* the value None of _key_checked_at
NoTime == -1

\* timedelta(minutes=20)
TTL == 20

\* the clock moves in steps of TickStep minutes up to MaxNow
TickStep == 10
MaxNow == 40

\* callers of get_active_api_key: the service's lifespan hook and requests
Callers == { "lifespan", "request" }

\* what a probe of the completion service comes back with:
\* status 200, another status, or an exception of the HTTP client
ProbeOutcomes == { "200", "429", "exception" }

\* check_api_key_async: the key when the status is 200, else None
check_api_key_async(api_key, outcome) ==
    IF outcome = "200" THEN api_key ELSE NoKey

\* the cache test ignoring force_refresh
CacheUsable_IgnoreForce(force_refresh) ==
    /\ active_api_key # NoKey
    /\ key_checked_at # NoTime
    /\ now - key_checked_at < TTL

\* the cache test never passing
CacheUsable_Never(force_refresh) == FALSE

\* if _active_api_key and _key_checked_at and not force_refresh:
\*     if datetime.now() - _key_checked_at < timedelta(minutes=20):
CacheUsable(force_refresh) ==
    /\ active_api_key # NoKey
    /\ key_checked_at # NoTime
    /\ ~force_refresh
    /\ now - key_checked_at < TTL

\* the loop probing on after a key validated
ProbeAccepted_Never(valid_key) == FALSE

\* if valid_key:
ProbeAccepted(valid_key) == valid_key # NoKey

\* the loop starting over instead of ending
HasNextKey_Wrap(i) == TRUE

\* for key in API_KEYS: is there a key after the i-th
HasNextKey(i) == i < Len(API_KEYS)

NextKeyIndex(i) == IF i < Len(API_KEYS) THEN i + 1 ELSE 1

\* the time a finished call started, taken as the time of the check
CheckedAt_CallTime(c) == gk[c].calledAt

\* _key_checked_at = datetime.now()
CheckedAt(c) == now

IdleCall ==
    [pc |-> "idle", force |-> FALSE, probed |-> << >>, statuses |-> << >>,
     result |-> NoKey, seenKey |-> NoKey, seenAt |-> NoTime, calledAt |-> 0]

CredInit(startKeys) ==
    /\ now = 0
    /\ active_api_key \in startKeys
    /\ key_checked_at = (IF active_api_key = NoKey THEN NoTime ELSE 0)
    /\ gk = [c \in Callers |-> IdleCall]

\* get_active_api_key(force_refresh), up to its return or its first await:
\* the cache test, and on a miss the probe of the first key is sent.
\* seenKey, seenAt and calledAt record the cache and the clock at the call.
CallCore(c, force_refresh) ==
    /\ gk[c].pc \in { "idle", "returned", "raised" }
    /\ gk' = [gk EXCEPT ![c] =
                [pc       |-> IF CacheUsable(force_refresh)
                              THEN "returned" ELSE "probing",
                 force    |-> force_refresh,
                 probed   |-> IF CacheUsable(force_refresh)
                              THEN << >> ELSE << 1 >>,
                 statuses |-> << >>,
                 result   |-> IF CacheUsable(force_refresh)
                              THEN active_api_key ELSE NoKey,
                 seenKey  |-> active_api_key,
                 seenAt   |-> key_checked_at,
                 calledAt |-> now]]
    /\ UNCHANGED << now, active_api_key, key_checked_at >>

\* the probe in flight comes back: accept the key, probe the next, or raise
ProbeDoneCore(c, outcome) ==
    /\ gk[c].pc = "probing"
    /\ LET i         == gk[c].probed[Len(gk[c].probed)]
           valid_key == check_api_key_async(API_KEYS[i], outcome)
           statuses  == Append(gk[c].statuses, outcome)
       IN  IF ProbeAccepted(valid_key)
           THEN /\ active_api_key' = valid_key
                /\ key_checked_at' = CheckedAt(c)
                /\ gk' = [gk EXCEPT ![c].pc = "returned",
                                    ![c].statuses = statuses,
                                    ![c].result = valid_key]
           ELSE IF HasNextKey(i)
           THEN /\ gk' = [gk EXCEPT ![c].statuses = statuses,
                                    ![c].probed = Append(@, NextKeyIndex(i))]
                /\ UNCHANGED << active_api_key, key_checked_at >>
           ELSE /\ gk' = [gk EXCEPT ![c].pc = "raised",
                                    ![c].statuses = statuses]
                /\ UNCHANGED << active_api_key, key_checked_at >>
    /\ UNCHANGED now

Call(c, force_refresh) ==
    /\ CallCore(c, force_refresh)
    /\ UNCHANGED << normVars, extrVars, batchVars, fnVars, uploadVars, gwVars >>

ProbeDone(c, outcome) ==
    /\ ProbeDoneCore(c, outcome)
    /\ UNCHANGED << normVars, extrVars, batchVars, fnVars, uploadVars, gwVars >>

Tick ==
    /\ now + TickStep <= MaxNow
    /\ now' = now + TickStep
    /\ UNCHANGED << active_api_key, key_checked_at, gk, normVars, extrVars,
                    batchVars, fnVars, uploadVars, gwVars >>

InitCred == NormInit({ << >> }) /\ ExtrInit /\ CredInit({ NoKey }) /\ BatchInit /\ FnInit({ NoArgs }) /\ UploadInit /\ GatewayInit
NextCred ==
    \/ \E c \in Callers, f \in BOOLEAN : Call(c, f)
    \/ \E c \in Callers, o \in ProbeOutcomes : ProbeDone(c, o)
    \/ Tick
SpecCred == InitCred /\ [][NextCred]_vars


(***************************************************************************)
(* Pipeline Orchestrator: process_cvs                                      *)
(***************************************************************************)

\* a batch holds at most MaxFiles files
MaxFiles == 3

BatchFiles ==
    { [filename |-> << "a", ".", "P", "D", "F" >>, valid |-> TRUE,
       text |-> << "a", " ", "\n", "," >>],
      [filename |-> << "c", ".", "x", "y", "z" >>, valid |-> TRUE,
       text |-> << "c" >>],
      [filename |-> << "d", ".", "d", "o", "c", "x" >>, valid |-> FALSE,
       text |-> << >>] }

FullDoc(sv, lv, xv, pv) == Doc(SchemaKeys, sv, lv, xv, pv)

\* completion-service outcomes the tasks of a batch meet
BatchResponses ==
    { [k |-> "neterr"],
      [k |-> "text", raw |-> Fence \o << "\n", DocChar, "\n" >> \o Fence,
       doc |-> FullDoc(Str(<< "a" >>), Str(<< "g", "." >>),
                       List(<< Str(<< >>), Str(<< "a" >>) >>),
                       List(<< Dict([name |-> Str(<< "p" >>),
                                     links |-> List(<< None, Str(<< "u" >>) >>)]) >>))],
      [k |-> "text", raw |-> << DocChar >>,
       doc |-> FullDoc(None, None, List(<< Str(<< "a" >>) >>),
                       List(<< Dict([name |-> Str(<< "p" >>)]), None >>))],
      [k |-> "text", raw |-> << DocChar >>,
       doc |-> Doc({ "name" }, Str(<< "a" >>), None, None, None)],
      [k |-> "text", raw |-> << DocChar >>,
       doc |-> Doc(SchemaKeys \cup { "error" }, Str(<< "a" >>), None,
                   List(<< >>), List(<< >>))] }

\* what the geocoder does on the successive calls of one get_lat_lon
GeoBehaviours ==
    { << "found", "found", "found" >>,
      << "timeout", "timeout", "timeout" >>,
      << "timeout", "notfound", "error" >> }

\* what genderize answers
GenderAnswers == { "male", "null", "error" }

\* what the warehouse client does with the load job
LoadOutcomes == { "ok", "error" }

\* the Notifier: not configured, message sent, SMTP error
MailOutcomes == { "unconfigured", "sent", "error" }

\* process_cvs going on with a batch although no credential validated
AfterCredential_Continue(pc) ==
    CASE pc \in { "returned", "raised" } -> "tasks"
      [] OTHER                           -> "cred"

\* line 213, api_key = await get_active_api_key(): where process_cvs stands
\* once the call is at pc: it goes on to the tasks with the key, the
\* RuntimeError leaves it, or it still awaits a probe
AfterCredential(pc) ==
    CASE pc = "returned" -> "tasks"
      [] pc = "raised"   -> "raised"
      [] OTHER           -> "cred"

\* process_cvs(files) up to its first await: get_active_api_key() returns
\* from the cache, and the tasks are created, or it awaits its first probe
StartBatch(fs) ==
    /\ bPc = "idle"
    /\ CallCore("request", FALSE)
    /\ files' = fs
    /\ bPc' = AfterCredential(gk'["request"].pc)
    /\ UNCHANGED << taskResp, results, df, json_response, bOut, bErr,
                    loadResult, warehouse, calls, normVars, extrVars, fnVars, uploadVars, gwVars >>

\* a probe of get_active_api_key comes back while process_cvs awaits it
BatchProbeDone(outcome) ==
    /\ bPc = "cred"
    /\ ProbeDoneCore("request", outcome)
    /\ bPc' = AfterCredential(gk'["request"].pc)
    /\ bErr' = (IF gk'["request"].pc = "raised" THEN "credentials" ELSE bErr)
    /\ UNCHANGED << files, taskResp, results, df, json_response, bOut,
                    loadResult, warehouse, calls, normVars, extrVars, fnVars, uploadVars, gwVars >>

\* the next task of asyncio.gather runs, from start to end: the tasks hold
\* no await, so they run one after the other in input order. An exception
\* leaving a task would leave gather and process_cvs.
RunTask(resp) ==
    /\ bPc = "tasks"
    /\ Len(results) < Len(files)
    /\ LET file == files[Len(results) + 1]
           text == extract_text(file)
           r    == process_single_cv(file, resp)
       IN  /\ (resp = NoResp) = IsRaise(text)
           /\ nText' = (IF IsRaise(text) THEN nText ELSE clean_text(text.s))
           /\ nPrev' = (IF IsRaise(text) THEN nPrev ELSE text.s)
           /\ taskResp' = Append(taskResp, resp)
           /\ calls' = [calls EXCEPT
                          !.extract_text = @ + 1,
                          !.completion = @ + (IF IsRaise(text) THEN 0 ELSE 1)]
           /\ IF r = Exc
              THEN /\ bPc' = "raised"
                   /\ bErr' = "task"
                   /\ UNCHANGED results
              ELSE /\ results' = Append(results, r)
                   /\ UNCHANGED << bPc, bErr >>
    /\ UNCHANGED << nPasses, files, df, json_response, bOut, loadResult,
                    warehouse, extrVars, credVars, fnVars, uploadVars, gwVars >>

\* lines 221-248, after the last task: partition, table, enrichment,
\* records; the load is handed to a worker thread, or on an empty table
\* process_cvs returns
Collect(geo, gd) ==
    /\ bPc = "tasks"
    /\ Len(results) = Len(files)
    /\ LET rows     == DataFrame(results)
           enriched == [i \in 1..Len(rows) |-> Enrich(rows[i], geo, gd)]
           geocalls == [i \in 1..Len(rows) |->
                          get_lat_lon(rows[i]["location"], geo).calls]
       IN  IF rows = << >>
           THEN /\ bPc' = "returned"
                /\ bOut' = [jsonCv |-> << >>, errors |-> Errors(results)]
                /\ UNCHANGED << df, json_response, calls >>
           ELSE /\ bPc' = "loading"
                /\ df' = enriched
                /\ json_response' = [i \in 1..Len(rows) |-> Dict(enriched[i])]
                /\ calls' = [calls EXCEPT
                               !.geocode = @ + SumSeq(geocalls),
                               !.genderize = @ + Len(rows),
                               !.load = @ + 1]
                /\ UNCHANGED bOut
    /\ UNCHANGED << files, taskResp, results, bErr, loadResult, warehouse,
                    normVars, extrVars, credVars, fnVars, uploadVars, gwVars >>

\* the Notifier invoked whatever the load did
Notified_Always(success) == TRUE

\* if success: await send_extraction_success_email()
Notified(success) == success

\* _load_to_bigquery_sync ends: it returned True and the Notifier is
\* called, or it raised and so does process_cvs
LoadDone(outcome, mail) ==
    /\ bPc = "loading"
    /\ LET table == LoadTable(df)
           success == ~(table = Exc \/ outcome = "error")
       IN  IF ~success
           THEN /\ loadResult' = "failed"
                /\ bPc' = "raised"
                /\ bErr' = "load"
                /\ calls' = [calls EXCEPT
                               !.email = @ + (IF Notified(success) THEN 1 ELSE 0)]
                /\ UNCHANGED << warehouse, bOut >>
           ELSE /\ loadResult' = "ok"
                /\ warehouse' = Append(warehouse, table)
                /\ calls' = [calls EXCEPT
                               !.email = @ + (IF Notified(success) THEN 1 ELSE 0)]
                /\ IF mail = "unconfigured"
                   THEN /\ bPc' = "returned"
                        /\ bOut' = [jsonCv |-> json_response,
                                    errors |-> Errors(results)]
                   ELSE /\ bPc' = "mailing"
                        /\ UNCHANGED bOut
                /\ UNCHANGED bErr
    /\ UNCHANGED << files, taskResp, results, df, json_response,
                    normVars, extrVars, credVars, fnVars, uploadVars, gwVars >>

\* aiosmtplib.send ends, sent or failed: process_cvs returns
EmailDone(mail) ==
    /\ bPc = "mailing"
    /\ bPc' = "returned"
    /\ bOut' = [jsonCv |-> json_response, errors |-> Errors(results)]
    /\ UNCHANGED << files, taskResp, results, df, json_response, bErr,
                    loadResult, warehouse, calls, normVars, extrVars, credVars, fnVars, uploadVars, gwVars >>

FileLists == UNION { [1..n -> BatchFiles] : n \in 1..MaxFiles }

\* the cache when a request arrives: empty, fresh, or TTL old
InitBatch ==
    /\ NormInit({ << >> }) /\ ExtrInit /\ BatchInit /\ FnInit({ NoArgs }) /\ UploadInit /\ GatewayInit
    /\ gk = [c \in Callers |-> IdleCall]
    /\ active_api_key \in { NoKey, API_KEYS[1] }
    /\ key_checked_at = (IF active_api_key = NoKey THEN NoTime ELSE 0)
    /\ now \in (IF active_api_key = NoKey THEN { 0 } ELSE { 0, TTL })

NextBatch ==
    \/ \E fs \in FileLists : StartBatch(fs)
    \/ \E o \in ProbeOutcomes : BatchProbeDone(o)
    \/ \E resp \in BatchResponses \cup { NoResp } : RunTask(resp)
    \/ \E geo \in GeoBehaviours, gd \in GenderAnswers : Collect(geo, gd)
    \/ \E o \in LoadOutcomes, mail \in MailOutcomes : LoadDone(o, mail)
    \/ \E mail \in MailOutcomes \ { "unconfigured" } : EmailDone(mail)
SpecBatch == InitBatch /\ [][NextBatch]_vars

(***************************************************************************)
(* sanitize_dataframe_for_bigquery called on a table                       *)
(***************************************************************************)

\* a table holds at most MaxRows rows
MaxRows == 2

\* cells of a list column other than projects
ListCells ==
    { None, NaN, List(<< >>), Num(5), Str(<< "a" >>),
      Dict([a |-> List(<< None >>)]),
      List(<< None, Str(<< >>), Str(NullStr), Str(<< "a" >>) >>),
      List(<< Str(<< "N", "u", "l", "l" >>), Num(0), Str(<< " " >>) >>) }

\* cells of the projects column
ProjectCells ==
    { None, NaN, List(<< >>), Num(0), Str(<< "p" >>),
      Dict([name |-> Str(<< "p" >>), links |-> List(<< None >>)]),
      List(<< Dict([name |-> Str(<< "p" >>)]) >>),
      List(<< Dict([name |-> Str(<< "p" >>), links |-> None]) >>),
      List(<< Dict([name |-> Str(<< "p" >>), links |-> Str(<< "u", "v" >>)]) >>),
      List(<< Dict([name |-> Str(<< "p" >>),
                    links |-> List(<< None, Str(<< >>), Str(NullStr),
                                      Str(<< "u" >>) >>)]),
              Dict([name |-> None, links |-> List(<< >>)]) >>),
      List(<< Dict([name |-> Str(<< "p" >>), links |-> Num(5)]) >>),
      List(<< Dict([name |-> Str(<< "p" >>)]), None >>),
      List(<< Str(NullStr) >>) }

\* the cells every cell of the other kind is paired with
CoreListCells ==
    { None, Str(<< "a" >>),
      List(<< None, Str(<< >>), Str(NullStr), Str(<< "a" >>) >>) }

CoreProjectCells ==
    { None,
      Dict([name |-> Str(<< "p" >>), links |-> List(<< None >>)]),
      List(<< Dict([name |-> Str(<< "p" >>),
                    links |-> List(<< None, Str(<< >>), Str(NullStr),
                                      Str(<< "u" >>) >>)]),
              Dict([name |-> None, links |-> List(<< >>)]) >>) }

\* rows: one cell for the list columns, one for projects
SanitizeRows ==
    { [k \in SanitizedColumns \cup { "name" } |->
         CASE k = "projects" -> cells[2]
           [] k = "name"     -> Str(<< "a" >>)
           [] OTHER          -> cells[1]] :
      cells \in (ListCells \X CoreProjectCells)
                    \cup (CoreListCells \X ProjectCells) }

SanitizeInputs(n) ==
    { [f |-> "sanitize", rows |-> rows] :
        rows \in UNION { [1..m -> SanitizeRows] : m \in 1..n } }

\* df = sanitize_dataframe_for_bigquery(df)
Sanitize ==
    /\ fPc = "idle"
    /\ fIn.f = "sanitize"
    /\ fOut' = sanitize_dataframe_for_bigquery(fIn.rows)
    /\ fPc' = (IF fOut' = Exc THEN "raised" ELSE "returned")
    /\ UNCHANGED << fIn, normVars, extrVars, credVars, batchVars, uploadVars, gwVars >>

InitSanitize ==
    /\ NormInit({ << >> }) /\ ExtrInit /\ CredInit({ NoKey }) /\ BatchInit
    /\ FnInit(SanitizeInputs(MaxRows)) /\ UploadInit /\ GatewayInit
NextSanitize == Sanitize
SpecSanitize == InitSanitize /\ [][NextSanitize]_vars

(***************************************************************************)
(* get_lat_lon and get_gender called on one value                          *)
(***************************************************************************)

\* what one geocode call does: a place with or without a country in its
\* address, None, GeocoderTimedOut, any other exception
GeoOutcomes == { "found", "found_nocountry", "notfound", "timeout", "error" }

Locations ==
    { None, NaN, Str(<< >>), Str(<< " " >>), Str(<< "x" >>) }

GeoInputs ==
    { [f |-> "get_lat_lon", location |-> l, geo |-> g] :
        l \in Locations, g \in [1..Retries -> GeoOutcomes] }

\* what genderize does: the gender of its answer, a null gender, an exception
GenderOutcomes == { "male", "female", "null", "error" }

GenderInputs ==
    { [f |-> "get_gender", name |-> n, gd |-> g] :
        n \in { None, NaN, Str(<< >>), Str(<< "a" >>) }, g \in GenderOutcomes }

\* get_lat_lon(location)
GetLatLon ==
    /\ fPc = "idle"
    /\ fIn.f = "get_lat_lon"
    /\ fOut' = get_lat_lon(fIn.location, fIn.geo)
    /\ fPc' = "returned"
    /\ UNCHANGED << fIn, normVars, extrVars, credVars, batchVars, uploadVars, gwVars >>

\* get_gender(name)
GetGender ==
    /\ fPc = "idle"
    /\ fIn.f = "get_gender"
    /\ fOut' = get_gender(fIn.name, fIn.gd)
    /\ fPc' = "returned"
    /\ UNCHANGED << fIn, normVars, extrVars, credVars, batchVars, uploadVars, gwVars >>

InitEnrich ==
    /\ NormInit({ << >> }) /\ ExtrInit /\ CredInit({ NoKey }) /\ BatchInit
    /\ FnInit(GeoInputs \cup GenderInputs) /\ UploadInit /\ GatewayInit
NextEnrich == GetLatLon \/ GetGender
SpecEnrich == InitEnrich /\ [][NextEnrich]_vars

(***************************************************************************)
(* routes.upload_cvs                                                       *)
(*                                                                         *)
(* An uploaded file is a file with read |-> what await file.read() does:   *)
(* "ok" (content), "empty" (no content), "error" (it raises).              *)
(***************************************************************************)

\* an upload holds at most MaxUploads files
MaxUploads == 2

\* the check of the extensions letting .xyz through
ALLOWED_EXTENSIONS_WithXyz ==
    { << ".", "p", "d", "f" >>, << ".", "d", "o", "c", "x" >>,
      << ".", "t", "x", "t" >>, << ".", "x", "y", "z" >> }

ALLOWED_EXTENSIONS ==
    { << ".", "p", "d", "f" >>, << ".", "d", "o", "c", "x" >>,
      << ".", "t", "x", "t" >> }

UploadFiles ==
    { [filename |-> << "a", ".", "P", "D", "F" >>, valid |-> TRUE,
       text |-> << "a", " ", "\n", "," >>, read |-> "ok"],
      [filename |-> << "b", ".", "t", "x", "t" >>, valid |-> TRUE,
       text |-> << >>, read |-> "empty"],
      [filename |-> << "c", ".", "x", "y", "z" >>, valid |-> TRUE,
       text |-> << "c" >>, read |-> "ok"],
      [filename |-> << "d", ".", "d", "o", "c", "x" >>, valid |-> FALSE,
       text |-> << >>, read |-> "error"],
      [filename |-> << "e" >>, valid |-> TRUE,
       text |-> << "e" >>, read |-> "ok"] }

Uploads(n) == UNION { [1..m -> UploadFiles] : m \in 0..n }

\* os.path.splitext(file.filename)[1].lower() not in ALLOWED_EXTENSIONS
Unsupported(file) == Lower(SplitExt(file.filename)) \notin ALLOWED_EXTENSIONS

\* processed_files: (filename, BytesIO(content)) of each upload
ProcessedFiles ==
    [i \in 1..Len(uFiles) |->
        [filename |-> uFiles[i].filename, valid |-> uFiles[i].valid,
         text |-> uFiles[i].text]]

\* upload_cvs(files) up to its first await: the checks of lines 50-60, then
\* the reads are started
Upload(fs) ==
    /\ uPc = "idle"
    /\ uFiles' = fs
    /\ IF fs = << >>
       THEN /\ uPc' = "responded"
            /\ uStatus' = 400
            /\ uDetail' = "No files were uploaded."
       ELSE IF \E i \in 1..Len(fs) : Unsupported(fs[i])
       THEN /\ uPc' = "responded"
            /\ uStatus' = 400
            /\ uDetail' = "Unsupported file type"
       ELSE /\ uPc' = "reading"
            /\ UNCHANGED << uStatus, uDetail >>
    /\ UNCHANGED << uReads, normVars, extrVars, credVars, batchVars, fnVars, gwVars >>

\* asyncio.gather of the reads ends: an empty or unreadable file answers
\* 500, else process_cvs is handed to asyncio.wait_for
ReadDone ==
    /\ uPc = "reading"
    /\ uReads' = uReads + Len(uFiles)
    /\ IF \E i \in 1..Len(uFiles) : uFiles[i].read # "ok"
       THEN /\ uPc' = "responded"
            /\ uStatus' = 500
            /\ uDetail' = "Error reading"
       ELSE /\ uPc' = "processing"
            /\ UNCHANGED << uStatus, uDetail >>
    /\ UNCHANGED << uFiles, normVars, extrVars, credVars, batchVars, fnVars, gwVars >>

\* process_cvs(processed_files) starts
Process ==
    /\ uPc = "processing"
    /\ StartBatch(ProcessedFiles)

\* process_cvs ended: its result is the response, its exception answers 500
Respond ==
    /\ uPc = "processing"
    /\ bPc \in { "returned", "raised" }
    /\ uPc' = "responded"
    /\ uStatus' = (IF bPc = "returned" THEN 200 ELSE 500)
    /\ uDetail' = (IF bPc = "returned" THEN "" ELSE "CV processing failed")
    /\ UNCHANGED << uFiles, uReads, normVars, extrVars, credVars, batchVars, fnVars, gwVars >>

\* the 300 s of asyncio.wait_for pass: process_cvs is cancelled
Timeout ==
    /\ uPc = "processing"
    /\ bPc \notin { "returned", "raised" }
    /\ uPc' = "responded"
    /\ uStatus' = 504
    /\ uDetail' = "Processing timed out. Try again."
    /\ bPc' = "cancelled"
    /\ UNCHANGED << uFiles, uReads, files, taskResp, results, df, json_response,
                    bOut, bErr, loadResult, warehouse, calls,
                    normVars, extrVars, credVars, fnVars, gwVars >>

InitUpload == InitBatch
NextUpload ==
    \/ \E fs \in Uploads(MaxUploads) : Upload(fs)
    \/ ReadDone
    \/ Process
    \/ \E o \in ProbeOutcomes : BatchProbeDone(o)
    \/ \E resp \in BatchResponses \cup { NoResp } : RunTask(resp)
    \/ \E geo \in GeoBehaviours, gd \in GenderAnswers : Collect(geo, gd)
    \/ \E o \in LoadOutcomes, mail \in MailOutcomes : LoadDone(o, mail)
    \/ \E mail \in MailOutcomes \ { "unconfigured" } : EmailDone(mail)
    \/ Respond
    \/ Timeout
SpecUpload == InitUpload /\ [][NextUpload]_vars

(***************************************************************************)
(* Gateway: token_auth_middleware and bot_protection_middleware            *)
(*                                                                         *)
(* A request is [method, path, query, authorization, user_agent]; a header *)
(* is None when the request does not carry it, else Str(chars).            *)
(***************************************************************************)

\* sub in s
Contains(s, sub) == \E i \in 1..(Len(s) + 1) : StartsAt(s, i, sub)

\* s.endswith(suffix)
EndsWith(s, suffix) ==
    Len(suffix) <= Len(s) /\ StartsAt(s, Len(s) - Len(suffix) + 1, suffix)

\* s.rstrip("/")
RECURSIVE RStripSlash(_)
RStripSlash(s) ==
    IF s # << >> /\ s[Len(s)] = "/"
    THEN RStripSlash(SubSeq(s, 1, Len(s) - 1))
    ELSE s

\* s.split(" ")
RECURSIVE SplitSpace(_)
SplitSpace(s) ==
    IF \E i \in 1..Len(s) : s[i] = " "
    THEN LET i == CHOOSE k \in 1..Len(s) :
                      s[k] = " " /\ \A j \in 1..(k - 1) : s[j] # " "
         IN  << SubSeq(s, 1, i - 1) >> \o SplitSpace(SubSeq(s, i + 1, Len(s)))
    ELSE << s >>

BLOCKED_PATHS ==
    { << "/", "w", "p", "-", "a", "d", "m", "i", "n" >>,
      << "/", "w", "p", "-", "l", "o", "g", "i", "n", ".", "p", "h", "p" >>,
      << "/", "w", "p", "-", "c", "o", "n", "t", "e", "n", "t" >>,
      << "/", "w", "o", "r", "d", "p", "r", "e", "s", "s" >>,
      << "/", "w", "p", "-", "i", "n", "c", "l", "u", "d", "e", "s" >>,
      << "/", "w", "p", "-", "j", "s", "o", "n" >>,
      << "/", "x", "m", "l", "r", "p", "c", ".", "p", "h", "p" >>,
      << "/", "w", "p", "-", "c", "r", "o", "n", ".", "p", "h", "p" >>,
      << "/", ".", "e", "n", "v" >>,
      << "/", "c", "o", "n", "f", "i", "g", ".", "p", "h", "p" >>,
      << "/", "i", "n", "f", "o", ".", "p", "h", "p" >>,
      << "/", "p", "h", "p", "i", "n", "f", "o", ".", "p", "h", "p" >>,
      << "/", "t", "e", "s", "t", ".", "p", "h", "p" >>,
      << "/", "a", "d", "m", "i", "n", ".", "p", "h", "p" >>,
      << "/", "s", "h", "e", "l", "l", ".", "p", "h", "p" >>,
      << "/", "s", "e", "t", "u", "p", ".", "p", "h", "p" >>,
      << "/", "a", "d", "m", "i", "n" >>,
      << "/", "a", "d", "m", "i", "n", "i", "s", "t", "r", "a", "t", "o", "r" >>,
      << "/", "p", "h", "p", "m", "y", "a", "d", "m", "i", "n" >>,
      << "/", "p", "m", "a" >>, << "/", "a", "d", "m", "i", "n", "e", "r" >>,
      << "/", "m", "y", "s", "q", "l" >>,
      << "/", "m", "y", "a", "d", "m", "i", "n" >>,
      << "/", "s", "q", "l", "m", "a", "n", "a", "g", "e", "r" >>,
      << "/", ".", "g", "i", "t" >>, << "/", ".", "s", "v", "n" >>,
      << "/", ".", "h", "t", "a", "c", "c", "e", "s", "s" >>,
      << "/", ".", "h", "t", "p", "a", "s", "s", "w", "d" >>,
      << "/", "b", "a", "c", "k", "u", "p" >>,
      << "/", ".", "b", "a", "c", "k", "u", "p" >>,
      << "/", "b", "a", "c", "k", "u", "p", "s" >>,
      << "/", "b", "a", "c", "k", "u", "p", ".", "s", "q", "l" >>,
      << "/", "d", "a", "t", "a", "b", "a", "s", "e", ".", "s", "q", "l" >>,
      << "/", "d", "b", ".", "s", "q", "l" >>,
      << "/", "d", "u", "m", "p", ".", "s", "q", "l" >>,
      << "/", "c", "o", "n", "f", "i", "g", ".", "j", "s", "o", "n" >>,
      << "/", "s", "e", "t", "t", "i", "n", "g", "s", ".", "p", "h", "p" >>,
      << "/", "c", "o", "n", "f", "i", "g", "u", "r", "a", "t", "i", "o", "n", ".", "p", "h", "p" >>,
      << "/", "w", "e", "b", ".", "c", "o", "n", "f", "i", "g" >>,
      << "/", "r", "o", "b", "o", "t", "s", ".", "t", "x", "t" >>,
      << "/", "s", "i", "t", "e", "m", "a", "p", ".", "x", "m", "l" >>,
      << "/", "s", "h", "e", "l", "l" >>, << "/", "c", "m", "d" >>,
      << "/", "c", "o", "m", "m", "a", "n", "d" >>,
      << "/", "e", "x", "e", "c", "u", "t", "e" >>,
      << "/", "e", "v", "a", "l" >>, << "/", "s", "y", "s", "t", "e", "m" >>,
      << "/", "e", "x", "e", "c" >>,
      << "/", "c", "g", "i", "-", "b", "i", "n" >>,
      << "/", "s", "c", "r", "i", "p", "t", "s" >>,
      << "/", "a", "s", "p", "n", "e", "t", "_", "c", "l", "i", "e", "n", "t" >>,
      << "/", ".", "w", "e", "l", "l", "-", "k", "n", "o", "w", "n" >>,
      << "/", "a", "c", "t", "u", "a", "t", "o", "r" >>,
      << "/", "a", "p", "i", "/", "a", "c", "t", "u", "a", "t", "o", "r" >>,
      << "/", "m", "a", "n", "a", "g", "e", "r", "/", "h", "t", "m", "l" >>,
      << "/", "i", "n", "v", "o", "k", "e", "r" >>,
      << "/", "j", "o", "l", "o", "k", "i", "a" >>,
      << "/", "l", "o", "g", "i", "n", ".", "a", "s", "p", "x" >>,
      << "/", "s", "i", "g", "n", "i", "n" >>,
      << "/", "u", "s", "e", "r", "/", "l", "o", "g", "i", "n" >>,
      << "/", "a", "d", "m", "i", "n", "/", "l", "o", "g", "i", "n" >>,
      << "/", "m", "a", "n", "a", "g", "e", "r", "/", "l", "o", "g", "i", "n" >> }

SUSPICIOUS_USER_AGENTS ==
    { << "n", "i", "k", "t", "o" >>, << "s", "q", "l", "m", "a", "p" >>,
      << "s", "c", "a", "n", "n", "e", "r" >>, << "n", "m", "a", "p" >>,
      << "m", "e", "t", "a", "s", "p", "l", "o", "i", "t" >>,
      << "b", "u", "r", "p" >>, << "z", "a", "p" >>,
      << "a", "c", "u", "n", "e", "t", "i", "x" >>,
      << "n", "e", "s", "s", "u", "s" >>,
      << "o", "p", "e", "n", "v", "a", "s" >>,
      << "q", "u", "a", "l", "y", "s" >>,
      << "n", "e", "x", "p", "o", "s", "e" >>,
      << "w", "p", "s", "c", "a", "n" >>, << "j", "o", "o", "m", "l", "a" >>,
      << "d", "r", "u", "p", "a", "l" >>, << "z", "g", "r", "a", "b" >>,
      << "m", "a", "s", "s", "c", "a", "n" >>,
      << "s", "h", "o", "d", "a", "n" >>, << "c", "e", "n", "s", "y", "s" >>,
      << "b", "o", "t" >>, << "c", "r", "a", "w", "l", "e", "r" >>,
      << "s", "p", "i", "d", "e", "r" >>,
      << "s", "c", "r", "a", "p", "e", "r" >>, << "w", "g", "e", "t" >>,
      << "c", "u", "r", "l" >> }

\* the patterns of BLOCKED_PATTERNS that are one literal
LiteralPatterns ==
    { << ".", ".", "/" >>, << ".", ".", "\\" >>,
      << "<", "s", "c", "r", "i", "p", "t" >>,
      << "j", "a", "v", "a", "s", "c", "r", "i", "p", "t", ":" >>,
      << "b", "a", "s", "e", "6", "4", "_", "d", "e", "c", "o", "d", "e" >>,
      << "e", "v", "a", "l", "(" >>, << "%", "0", "0" >>,
      << ".", "p", "h", "p", "." >> }

\* the alternatives of \.(bak|backup|old|orig|save|swp|tmp)$
BackupSuffixes ==
    { << ".", "b", "a", "k" >>, << ".", "b", "a", "c", "k", "u", "p" >>,
      << ".", "o", "l", "d" >>, << ".", "o", "r", "i", "g" >>,
      << ".", "s", "a", "v", "e" >>, << ".", "s", "w", "p" >>,
      << ".", "t", "m", "p" >> }

\* s[i..j] holds no line break: what .* can run over
NoLineBreak(s, i, j) == \A k \in i..j : s[k] # "\n"

\* first .* then last: the patterns union.*select and \$\{.*\}
Spans(s, first, last) ==
    \E i \in 1..Len(s), j \in 1..Len(s) :
        /\ StartsAt(s, i, first)
        /\ j >= i + Len(first)
        /\ StartsAt(s, j, last)
        /\ NoLineBreak(s, i + Len(first), j - 1)

\* any(pattern.search(s) for pattern in COMPILED_PATTERNS); the patterns
\* are compiled with re.IGNORECASE
BLOCKED_PATTERNS(s) ==
    LET l == Lower(s)
    IN  \/ \E lit \in LiteralPatterns : Contains(l, lit)
        \/ \E suffix \in BackupSuffixes : EndsWith(l, suffix)
        \/ Spans(l, << "u", "n", "i", "o", "n" >>, << "s", "e", "l", "e", "c", "t" >>)
        \/ Spans(l, << "$", "{" >>, << "}" >>)

\* request.headers.get("user-agent", "").lower()
UserAgentOf(request) ==
    IF request.user_agent = None THEN << >> ELSE Lower(request.user_agent.s)

is_bot_request(request) ==
    LET path == Lower(request.path)
        user_agent == UserAgentOf(request)
    IN  \/ \E blocked_path \in BLOCKED_PATHS : Contains(path, blocked_path)
        \/ BLOCKED_PATTERNS(path)
        \/ \E agent \in SUSPICIOUS_USER_AGENTS : Contains(user_agent, agent)
        \/ user_agent = << >>
        \/ user_agent = << "-" >>
        \/ request.query # << >> /\ BLOCKED_PATTERNS(request.query)

\* the paths bot_protection_middleware lets through unchecked
BotSkipPaths ==
    { << "/", "m", "e", "t", "r", "i", "c", "s" >>,
      << "a", "p", "i", "/", "v", "1", "/", "h", "e", "a", "l", "t", "h" >> }

open_paths ==
    { << "/", "d", "o", "c", "s" >>, << "/", "r", "e", "d", "o", "c" >>,
      << "/", "o", "p", "e", "n", "a", "p", "i", ".", "j", "s", "o", "n" >>,
      << "/", "m", "e", "t", "r", "i", "c", "s" >>,
      << "/", "a", "p", "i", "/", "v", "1", "/", "r", "e", "g", "i", "s", "t", "e", "r" >>,
      << "/", "a", "p", "i", "/", "v", "1", "/", "l", "o", "g", "i", "n" >>,
      << "/", "a", "p", "i", "/", "v", "1", "/", "h", "e", "a", "l", "t", "h" >> }

\* any(path == p or path == p.rstrip("/") for p in open_paths)
IsOpenPath(path) ==
    \E p \in open_paths : path = p \/ path = RStripSlash(p)

\* the tokens jwt.decode accepts: signed with SECRET_KEY and not expired
ValidTokens == { << "o", "k" >> }

\* jwt.decode(token, SECRET_KEY, algorithms=[ALGORITHM]): the subject of
\* the payload, or JWTError
jwt_decode(token) == IF token \in ValidTokens THEN "testuser" ELSE "JWTError"

\* what token_auth_middleware does with the request before call_next:
\* "pass" and the user it stored, or the response it returns, or the
\* exception it lets out
token_auth(request) ==
    LET path == RStripSlash(request.path)
        token == request.authorization
    IN  IF IsOpenPath(path) THEN [do |-> "pass", user |-> ""]
        ELSE IF request.method = "OPTIONS" THEN [do |-> "pass", user |-> ""]
        ELSE IF token = None \/ token.s = << >>
                \/ ~StartsAt(token.s, 1, << "B", "e", "a", "r", "e", "r" >>)
        THEN [do |-> "respond", status |-> 401, detail |-> "Invalid token"]
        ELSE LET parts == SplitSpace(token.s)
             IN  IF Len(parts) < 2
                 THEN [do |-> "raise", error |-> "IndexError"]
                 ELSE LET sub == jwt_decode(parts[2])
                      IN  IF sub = "JWTError"
                          THEN [do |-> "respond", status |-> 401,
                                detail |-> "Token is expired or invalid"]
                          ELSE [do |-> "pass", user |-> sub]

\* what bot_protection_middleware does with the request before call_next
bot_protection(request) ==
    IF request.path \in BotSkipPaths THEN [do |-> "pass"]
    ELSE IF is_bot_request(request)
    THEN [do |-> "respond", status |-> 404, detail |-> "Not found"]
    ELSE [do |-> "pass"]

\* the order in which a request passes the functions registered with
\* @app.middleware("http"): the one registered last is the outermost
MiddlewareOrder == << "token_auth", "bot_protection" >>

\* the routes of the application: (method, path)
Routes ==
    { << "GET", << "/" >> >>,
      << "GET", << "/", "a", "p", "i", "/", "v", "1", "/" >> >>,
      << "POST", << "/", "a", "p", "i", "/", "v", "1", "/", "r", "e", "g", "i", "s", "t", "e", "r" >> >>,
      << "PUT", << "/", "a", "p", "i", "/", "v", "1", "/", "r", "e", "g", "i", "s", "t", "e", "r" >> >>,
      << "POST", << "/", "a", "p", "i", "/", "v", "1", "/", "l", "o", "g", "i", "n" >> >>,
      << "POST", << "/", "a", "p", "i", "/", "v", "1", "/", "r", "e", "g", "i", "s", "t", "e", "r", "/", "d", "e", "l", "e", "t", "e" >> >>,
      << "POST", << "/", "a", "p", "i", "/", "v", "1", "/", "u", "p", "l", "o", "a", "d", "_", "c", "v", "s" >> >>,
      << "GET", << "/", "m", "e", "t", "r", "i", "c", "s" >> >>,
      << "GET", << "/", "d", "o", "c", "s" >> >> }

\* what a route handler answers with
HandlerStatuses == { 200, 422 }

Methods == { "GET", "POST", "OPTIONS" }

RequestPaths ==
    { << "/", "a", "p", "i", "/", "v", "1", "/", "u", "p", "l", "o", "a", "d", "_", "c", "v", "s" >>,
      << "/", "a", "p", "i", "/", "v", "1", "/", "l", "o", "g", "i", "n" >>,
      << "/", "a", "p", "i", "/", "v", "1", "/", "l", "o", "g", "i", "n", "/" >>,
      << "/", "m", "e", "t", "r", "i", "c", "s" >>,
      << "/", "a", "p", "i", "/", "v", "1", "/" >>,
      << "/", "a", "p", "i", "/", "v", "1", "/", "n", "o", "n", "e", "x", "i", "s", "t", "e", "n", "t" >>,
      << "/", "W", "P", "-", "A", "d", "m", "i", "n" >>,
      << "/", "a", "p", "i", "/", "v", "1", "/", "c", "v", ".", "b", "a", "k" >>,
      << "/", "a", "p", "i", "/", "v", "1", "/", "h", "e", "a", "l", "t", "h" >> }

RequestQueries ==
    { << >>, << "q", "=", "$", "{", "x", "}" >> }

AuthorizationHeaders ==
    { None, Str(<< >>),
      Str(<< "B", "a", "s", "i", "c", " ", "o", "k" >>),
      Str(<< "B", "e", "a", "r", "e", "r" >>),
      Str(<< "B", "e", "a", "r", "e", "r", " ", "o", "k" >>),
      Str(<< "B", "e", "a", "r", "e", "r", " ", "b", "a", "d" >>),
      Str(<< "B", "e", "a", "r", "e", "r", " ", " ", "o", "k" >>) }

UserAgents ==
    { None, Str(<< "-" >>),
      Str(<< "M", "o", "z", "i", "l", "l", "a", "/", "5", ".", "0" >>),
      Str(<< "c", "u", "r", "l", "/", "8" >>) }

Requests ==
    [method : Methods, path : RequestPaths, query : RequestQueries,
     authorization : AuthorizationHeaders, user_agent : UserAgents]

\* the response leaves the application
Answer(status, detail) ==
    /\ gPc' = "responded"
    /\ gStatus' = status
    /\ gDetail' = detail

\* after a middleware called call_next: the next one, or the router
Forward ==
    /\ gPc' = (IF Len(gTrace') < Len(MiddlewareOrder) THEN "middleware"
               ELSE "router")
    /\ UNCHANGED << gStatus, gDetail >>

\* a request arrives
Receive(request) ==
    /\ gPc = "idle"
    /\ gReq' = request
    /\ gPc' = "middleware"
    /\ UNCHANGED << gStatus, gDetail, gTrace, gUser >>
    /\ UNCHANGED << normVars, extrVars, credVars, batchVars, fnVars, uploadVars >>

\* token_auth_middleware runs up to its call_next or its return; an
\* exception it lets out is answered 500 by the server
TokenAuth ==
    /\ gPc = "middleware"
    /\ MiddlewareOrder[Len(gTrace) + 1] = "token_auth"
    /\ gTrace' = Append(gTrace, "token_auth")
    /\ LET r == token_auth(gReq)
       IN  /\ gUser' = (IF r.do = "pass" THEN r.user ELSE gUser)
           /\ IF r.do = "pass" THEN Forward
              ELSE IF r.do = "respond" THEN Answer(r.status, r.detail)
              ELSE Answer(500, "Internal Server Error")
    /\ UNCHANGED gReq
    /\ UNCHANGED << normVars, extrVars, credVars, batchVars, fnVars, uploadVars >>

\* bot_protection_middleware runs up to its call_next or its return
BotProtection ==
    /\ gPc = "middleware"
    /\ MiddlewareOrder[Len(gTrace) + 1] = "bot_protection"
    /\ gTrace' = Append(gTrace, "bot_protection")
    /\ LET r == bot_protection(gReq)
       IN  IF r.do = "pass" THEN Forward
           ELSE Answer(r.status, r.detail)
    /\ UNCHANGED << gReq, gUser >>
    /\ UNCHANGED << normVars, extrVars, credVars, batchVars, fnVars, uploadVars >>

\* the router: the handler of the route answers, or no route matches
Route(status) ==
    /\ gPc = "router"
    /\ IF << gReq.method, gReq.path >> \in Routes
       THEN /\ gTrace' = Append(gTrace, "handler")
            /\ Answer(status, "")
       ELSE IF \E r \in Routes : r[2] = gReq.path
       THEN /\ gTrace' = Append(gTrace, "router")
            /\ Answer(405, "Method Not Allowed")
       ELSE /\ gTrace' = Append(gTrace, "router")
            /\ Answer(404, "Not Found")
    /\ UNCHANGED << gReq, gUser >>
    /\ UNCHANGED << normVars, extrVars, credVars, batchVars, fnVars, uploadVars >>

InitGateway == InitCred
NextGateway ==
    \/ \E request \in Requests : Receive(request)
    \/ TokenAuth
    \/ BotProtection
    \/ \E status \in HandlerStatuses : Route(status)
SpecGateway == InitGateway /\ [][NextGateway]_vars

InitClean == NormInit(Texts(MaxPieces)) /\ ExtrInit /\ CredInit({ NoKey }) /\ BatchInit /\ FnInit({ NoArgs }) /\ UploadInit /\ GatewayInit
NextClean == CleanText
SpecClean == InitClean /\ [][NextClean]_vars

NextExtract == \E resp \in Responses : Extract(resp)
InitExtract == NormInit({ << >> }) /\ ExtrInit /\ CredInit({ NoKey }) /\ BatchInit /\ FnInit({ NoArgs }) /\ UploadInit /\ GatewayInit
SpecExtract == InitExtract /\ [][NextExtract]_vars

(***************************************************************************)
(* Claims: Text Normalizer                                                 *)
(***************************************************************************)

\* C1: clean_text(clean_text(x)) = clean_text(x) for every input x: the
\* second run of clean_text leaves the text as the first run produced it.
C1_Idempotent == nPasses = 2 => nText = nPrev

(***************************************************************************)
(* Claims: Structured Extractor                                            *)
(***************************************************************************)

\* the candidate text, once its code fence is removed, is no JSON document
NotJson(resp) ==
    resp.k = "text" /\ json_loads(StripFence(resp.raw), resp.doc) = Exc

IsAllNullRecord(v) ==
    /\ IsDict(v)
    /\ DOMAIN v.d = SchemaKeys
    /\ Cardinality(DOMAIN v.d) = 13
    /\ \A k \in DOMAIN v.d : v.d[k] = None

\* C2: extract never raises, and on a network error, a response without the
\* candidate text, or candidate text that is not JSON, it returns the record
\* of exactly the 13 schema keys, all null.
C2_FallbackOnFailure ==
    /\ xPc # "raised"
    /\ (xPc = "returned" /\ (xResp.k \in { "neterr", "nocand" } \/ NotJson(xResp)))
          => IsAllNullRecord(xOut)

C2_Witness ==
    /\ xPc = "returned"
    /\ NotJson(xResp)
    /\ xResp.raw # << >>
    /\ IsAllNullRecord(xOut)

\* the response is a JSON object that lacks some of the schema keys
OmitsKeys(resp) ==
    /\ resp.k = "text"
    /\ ~NotJson(resp)
    /\ StripFence(resp.raw) = << DocChar >>
    /\ IsDict(resp.doc)
    /\ ~(SchemaKeys \subseteq DOMAIN resp.doc.d)

\* C3: every record extract returns has all 13 schema keys; a JSON object
\* that omits some of them yields the all-null 13-key record, never a
\* partial one.
C3_AllKeysPresent ==
    xPc = "returned" =>
        /\ IsDict(xOut)
        /\ SchemaKeys \subseteq DOMAIN xOut.d
        /\ (OmitsKeys(xResp) => IsAllNullRecord(xOut))

\* null, or a string beginning with "http"
HasScheme(v) == v = None \/ (IsStr(v) /\ StartsAt(v.s, 1, HttpStr))

\* the value the service sent for a link: present, and lacking the prefix
LacksScheme(v) ==
    IsStr(v) /\ Strip(v.s) # << >> /\ ~IsNullString(v) /\ ~StartsAt(v.s, 1, HttpStr)

\* C12: in every record extract returns, github_link and linkedin_link are
\* each null or a string beginning with "http"; a present value lacking
\* the prefix got "https://" prepended.
C12_LinksHaveScheme ==
    xPc = "returned" =>
        \A key \in LinkKeys :
            /\ HasScheme(Get(xOut.d, key))
            /\ (/\ ~IsAllNullRecord(xOut)
                /\ key \in DOMAIN xOut.d
                /\ LacksScheme(xResp.doc.d[key]))
                  => xOut.d[key] = Str(HttpsPrefix \o Strip(xResp.doc.d[key].s))

\* C13: after clean_empty_lists_as_none, for every project object of a
\* non-null projects list, links is a list, whatever the service sent for
\* it, and holds no falsy entry and no "null" entry.
C13_ProjectLinksClean ==
    xPc = "returned" =>
        LET projects == Get(xOut.d, "projects")
        IN  IsList(projects) =>
                \A i \in 1..Len(projects.xs) :
                    IsDict(projects.xs[i]) =>
                        LET links == Get(projects.xs[i].d, "links")
                        IN  /\ IsList(links)
                            /\ \A j \in 1..Len(links.xs) :
                                  /\ Truthy(links.xs[j])
                                  /\ links.xs[j] # Str(NullStr)

(***************************************************************************)
(* Claims: Pipeline Orchestrator                                           *)
(***************************************************************************)

\* the files of the batch that fail inside their task
Failing == { i \in 1..Len(files) : IsRaise(extract_text(files[i])) }

\* a successful record: the 13 keys, not all of them null
GoodRecord(r) ==
    /\ IsDict(r)
    /\ DOMAIN r.d = SchemaKeys
    /\ \E key \in SchemaKeys : r.d[key] # None

\* all tasks have run, exactly one file failed in its task, and each other
\* file is well-formed: readable, and answered with a successful record
OneFailingFile ==
    /\ files # << >>
    /\ Len(taskResp) = Len(files)
    /\ Cardinality(Failing) = 1
    /\ \A i \in (1..Len(files)) \ Failing : GoodRecord(extract(taskResp[i]))

FailingFile == CHOOSE i \in Failing : TRUE

\* the task whose record is the j-th successful one
SiblingOf(j) == IF j < FailingFile THEN j ELSE j + 1

\* C4: in a batch of N files where exactly one file k fails inside its own
\* task and every other file is well-formed, the failure does not leave the
\* task (process_cvs is not cancelled by it), the task of k yields a
\* ProcessingError naming k, every sibling task yields the record it yields
\* on its own, and the result process_cvs returns holds exactly one
\* ProcessingError, naming k, and the N-1 records of the siblings.
C4_OneFailureIsolated ==
    OneFailingFile =>
        /\ bErr # "task"
        /\ Len(results) = Len(files)
        /\ results[FailingFile].t = "dict"
        /\ DOMAIN results[FailingFile].d = { "error", "file" }
        /\ results[FailingFile].d["file"] = Str(files[FailingFile].filename)
        /\ \A i \in (1..Len(files)) \ Failing :
              results[i] = extract(taskResp[i])
        /\ bPc = "returned" =>
              /\ Len(bOut.errors) = 1
              /\ bOut.errors[1] = results[FailingFile]
              /\ Len(bOut.jsonCv) = Len(files) - 1
              /\ \A j \in 1..(Len(files) - 1), key \in SchemaKeys :
                    bOut.jsonCv[j].d[key] = results[SiblingOf(j)].d[key]

\* a batch of three returned, its middle file failing for its extension
C4_Witness ==
    /\ bPc = "returned"
    /\ OneFailingFile
    /\ Len(files) = 3
    /\ FailingFile = 2
    /\ files[2].valid
    /\ Len(bOut.jsonCv) = 2

\* C5: when the warehouse load fails, process_cvs does not raise: it returns
\* the records already computed together with the error list, and the
\* Notifier is not invoked for the batch.
C5_LoadFailureReturns ==
    loadResult = "failed" =>
        /\ bPc = "returned"
        /\ bOut = [jsonCv |-> json_response, errors |-> Errors(results)]
        /\ calls.email = 0

\* C11: if no credential validates, process_cvs aborts with the fatal error
\* before any file is processed: no text extraction, no completion-service
\* call, no enrichment, no warehouse load and no notification happens for
\* the batch, then or later.
C11_AbortBeforeAnyFile ==
    gk["request"].pc = "raised" =>
        /\ bPc = "raised"
        /\ bErr = "credentials"
        /\ calls = NoCalls
        /\ taskResp = << >> /\ results = << >>
        /\ df = << >> /\ json_response = << >>
        /\ loadResult = "none" /\ warehouse = << >>
        /\ bOut = NoOut

\* a batch of three files, a readable one among them, aborted on a stale
\* cache after each key was probed and rejected
C11_Witness ==
    /\ bPc = "raised"
    /\ gk["request"].pc = "raised"
    /\ Len(gk["request"].probed) = Len(API_KEYS)
    /\ active_api_key # NoKey
    /\ Len(files) = 3
    /\ \E i \in 1..3 : ~IsRaise(extract_text(files[i]))

(***************************************************************************)
(* Claims: Sanitization                                                    *)
(***************************************************************************)

\* null, the empty string, or the literal string "null"
NullElement(v) == v = None \/ v = Str(<< >>) \/ v = Str(NullStr)

\* a cell is a list without a null element
CleanList(v) ==
    IsList(v) /\ \A j \in 1..Len(v.xs) : ~NullElement(v.xs[j])

\* no links of a project of the cell holds a null element
CleanLinks(v) ==
    \A i \in 1..Len(v.xs) :
        IsDict(v.xs[i]) => CleanList(Get(v.xs[i].d, "links"))

\* C14: after sanitize_dataframe_for_bigquery, in every row, no designated
\* list column (skills, experience, projects, certifications, achievements,
\* education) holds a null, an empty string or the literal string "null"
\* as an element, and no projects[i].links holds such an element.
C14_NoNullElements ==
    fPc = "returned" /\ fIn.f = "sanitize" =>
        /\ Len(fOut.rows) = Len(fIn.rows)
        /\ \A r \in 1..Len(fOut.rows) :
              /\ \A col \in SanitizedColumns : CleanList(fOut.rows[r][col])
              /\ CleanLinks(fOut.rows[r]["projects"])

\* a table of two rows came back; null elements were in a list column and
\* in the links of a project of the first row
C14_Witness ==
    /\ fPc = "returned" /\ fIn.f = "sanitize"
    /\ Len(fIn.rows) = 2
    /\ ~CleanList(fIn.rows[1]["skills"]) /\ IsList(fIn.rows[1]["skills"])
    /\ IsList(fIn.rows[1]["projects"]) /\ ~CleanLinks(fIn.rows[1]["projects"])
    /\ fOut.rows[1]["projects"].xs # << >>

\* the list fields of a returned record
ListFields == ListKeys

\* C15: the records process_cvs returns are the sanitized table: in every
\* returned record no list field (skills, education, experience,
\* certifications, achievements) and no projects[i].links holds a null, an
\* empty string or the literal "null".
C15_ReturnedRecordsSanitized ==
    bPc = "returned" =>
        \A r \in 1..Len(bOut.jsonCv) :
            /\ \A col \in ListFields :
                  IsList(bOut.jsonCv[r].d[col]) => CleanList(bOut.jsonCv[r].d[col])
            /\ LET projects == bOut.jsonCv[r].d["projects"]
               IN  IsList(projects) => CleanLinks(projects)

(***************************************************************************)
(* Claims: Enrichment                                                      *)
(***************************************************************************)

\* a get_lat_lon call has returned
GeoReturned == fPc = "returned" /\ fIn.f = "get_lat_lon"

\* a non-empty location string
NonEmptyLocation == IsStr(fIn.location) /\ fIn.location.s # << >>

\* the k-th attempt is the first that does not time out
FirstAnswerAt(k) ==
    /\ \A i \in 1..(k - 1) : fIn.geo[i] = "timeout"
    /\ fIn.geo[k] # "timeout"

\* the number of geocode calls in the events
GeocodeEvents == Cardinality({ i \in 1..Len(fOut.events) : fOut.events[i] = "geocode" })

\* C16: for a non-empty location on which the geocoder times out on every
\* attempt, get_lat_lon calls it exactly Retries times, with the delay only
\* between consecutive attempts, then returns the default without raising.
C16_RetriesThenDefault ==
    (GeoReturned /\ NonEmptyLocation /\ \A i \in 1..Retries : fIn.geo[i] = "timeout")
        => /\ fOut.geo = DefaultGeo
           /\ fOut.calls = Retries
           /\ GeocodeEvents = Retries
           /\ \A i \in 1..Len(fOut.events) :
                 fOut.events[i] = "sleep" =>
                     /\ 1 < i /\ i < Len(fOut.events)
                     /\ fOut.events[i - 1] = "geocode"
                     /\ fOut.events[i + 1] = "geocode"

\* C17: for an empty or missing location, get_lat_lon returns the default
\* coordinates and country at once, with no call to the geocoder and no
\* delay.
C17_EmptyLocationDefault ==
    (GeoReturned /\ fIn.location \in { None, Str(<< >>) })
        => /\ fOut.geo = DefaultGeo
           /\ fOut.calls = 0
           /\ fOut.sleeps = 0
           /\ fOut.events = << >>

\* the empty string was passed, and the geocoder would have found the place
C17_Witness ==
    /\ GeoReturned
    /\ fIn.location = Str(<< >>)
    /\ fIn.geo[1] = "found"
    /\ fOut.geo = DefaultGeo

\* C18: when a geocoding attempt fails with an error other than a timeout,
\* or reports "not found", get_lat_lon returns the default at once: no
\* further attempt and no delay follows, whatever number of timeouts came
\* before it.
C18_NoRetryOnError ==
    \A k \in 1..Retries :
        (GeoReturned /\ NonEmptyLocation /\ FirstAnswerAt(k)
            /\ fIn.geo[k] \in { "error", "notfound" })
            => /\ fOut.geo = DefaultGeo
               /\ fOut.calls = k
               /\ GeocodeEvents = k
               /\ Len(fOut.events) = 2 * k - 1
               /\ fOut.events[Len(fOut.events)] = "geocode"

\* a timeout, then an error on the second attempt, with one attempt left
\* on which the geocoder would have found the place
C18_Witness ==
    /\ GeoReturned /\ NonEmptyLocation
    /\ fIn.geo = << "timeout", "error", "found" >>
    /\ fOut.calls = 2

\* a get_gender call has returned
GenderReturned == fPc = "returned" /\ fIn.f = "get_gender"

\* C19: get_gender never raises and never returns null: when the lookup
\* fails or reports a null gender it returns "unknown", otherwise the
\* gender of the answer.
C19_GenderOrUnknown ==
    /\ fIn.f = "get_gender" => fPc # "raised"
    /\ GenderReturned =>
          /\ fOut # None
          /\ IsStr(fOut)
          /\ fIn.gd \in { "null", "error" } => fOut = Str(<< "unknown" >>)
          /\ fIn.gd \notin { "null", "error" } => fOut = Str(<< fIn.gd >>)

\* the lookup answered with a null gender
C19_Witness ==
    /\ GenderReturned
    /\ fIn.gd = "null"
    /\ fOut = Str(<< "unknown" >>)

(***************************************************************************)
(* Claims: upload_cvs                                                      *)
(***************************************************************************)

\* C20: upload_cvs rejects the whole request with status 400 ("Unsupported
\* file type") if any uploaded file has an extension outside
\* .pdf/.docx/.txt; then no file is read and process_cvs is never invoked.
C20_UnsupportedRejected ==
    (uPc # "idle" /\ \E i \in 1..Len(uFiles) :
        Lower(SplitExt(uFiles[i].filename)) \notin
            { << ".", "p", "d", "f" >>, << ".", "d", "o", "c", "x" >>,
              << ".", "t", "x", "t" >> })
        => /\ uPc = "responded"
           /\ uStatus = 400
           /\ uDetail = "Unsupported file type"
           /\ uReads = 0
           /\ bPc = "idle"
           /\ files = << >>
           /\ calls = NoCalls

\* two files were uploaded, a readable .PDF first and a .xyz after it
C20_Witness ==
    /\ uPc = "responded"
    /\ uStatus = 400
    /\ Len(uFiles) = 2
    /\ uFiles[1].filename = << "a", ".", "P", "D", "F" >>
    /\ uFiles[2].filename = << "c", ".", "x", "y", "z" >>
    /\ uReads = 0

(***************************************************************************)
(* Claims: Gateway                                                         *)
(***************************************************************************)

\* a non-OPTIONS request to a path outside the open list
Protected(request) ==
    /\ request.method # "OPTIONS"
    /\ ~IsOpenPath(RStripSlash(request.path))

\* the Authorization header is missing, does not start with "Bearer", or
\* holds no token that passes jwt.decode
Unauthenticated(request) ==
    LET h == request.authorization
    IN  \/ h = None
        \/ ~StartsAt(h.s, 1, << "B", "e", "a", "r", "e", "r" >>)
        \/ ~(/\ Len(SplitSpace(h.s)) >= 2
             /\ SplitSpace(h.s)[2] \in ValidTokens)

\* C21: every non-OPTIONS request to a path outside the open list whose
\* Authorization header is missing, does not start with "Bearer", or carries
\* a token that fails JWT validation is answered with status 401 and never
\* reaches a route handler.
C21_UnauthenticatedAnswered401 ==
    (gPc = "responded" /\ Protected(gReq) /\ Unauthenticated(gReq))
        => /\ gStatus = 401
           /\ \A i \in 1..Len(gTrace) : gTrace[i] \notin { "handler", "router" }

\* a request the bot check applies to and is_bot_request classifies as a bot
ClassifiedAsBot(request) ==
    request.path \notin BotSkipPaths /\ is_bot_request(request)

\* C28: bot protection runs before authentication: a request that
\* is_bot_request classifies as a bot is answered with the generic 404
\* "Not found" without the token check running, also when it carries no
\* Authorization header.
C28_BotAnsweredBeforeTokenCheck ==
    (gPc = "responded" /\ ClassifiedAsBot(gReq))
        => /\ gStatus = 404
           /\ gDetail = "Not found"
           /\ \A i \in 1..Len(gTrace) : gTrace[i] # "token_auth"

\* caller c's probe comes back accepted in this step
ProbeSucceeds(c) == gk[c].pc = "probing" /\ gk'[c].pc = "returned"

\* C22: under every interleaving of concurrent get_active_api_key callers,
\* each write to the cache replaces it with fresher data: checked_at never
\* decreases, key and checked_at are always written together, and the
\* cached key is always the one whose successful probe completed most
\* recently.
C22_CacheWritesFresher ==
    [][ /\ key_checked_at' >= key_checked_at
        /\ (active_api_key' = NoKey) = (key_checked_at' = NoTime)
        /\ \A c \in Callers :
              ProbeSucceeds(c) =>
                  /\ active_api_key' = gk'[c].result
                  /\ active_api_key' # NoKey
                  /\ key_checked_at' = now'
        /\ (~\E c \in Callers : ProbeSucceeds(c)) =>
                  UNCHANGED << active_api_key, key_checked_at >>
      ]_vars

\* two calls that both missed the empty cache have both written it, with
\* different keys, the second write later than the first call
C22_Witness ==
    /\ \A c \in Callers : gk[c].pc = "returned" /\ gk[c].seenKey = NoKey
                          /\ gk[c].probed # << >>
    /\ gk["lifespan"].result # gk["request"].result
    /\ active_api_key = gk["request"].result
    /\ key_checked_at > 0

\* C23: the per-file extraction tasks of one batch run concurrently: the
\* completion-service call is a suspension point, so the step in which a
\* task sends its call leaves that task unfinished, its call in flight, and
\* other tasks can start or finish before it (no completion order is fixed
\* by the input order).
C23_CompletionCallSuspends ==
    [][ calls'.completion > calls.completion
            => /\ Len(results') = Len(results)
               /\ bPc' = "tasks"
      ]_vars

\* C24: within one process_cvs batch the Notifier is invoked at most once,
\* and only after that batch's warehouse load has completed successfully;
\* it is never invoked before the load finishes or when no load was
\* attempted.
C24_NotifierOnceAfterLoad ==
    /\ calls.email <= 1
    /\ calls.email = 1 =>
          /\ calls.load = 1
          /\ loadResult = "ok"
          /\ Len(warehouse) = 1
    /\ bPc \in { "idle", "cred", "tasks", "loading" } => calls.email = 0
    /\ calls.load = 0 => calls.email = 0

\* a batch whose load succeeded has invoked the Notifier and returned
C24_Witness ==
    /\ bPc = "returned"
    /\ loadResult = "ok"
    /\ calls.email = 1

\* null, or a string that is "null" up to case and surrounding blanks
NullEquivalent(v) ==
    v = None \/ (IsStr(v) /\ Lower(Strip(v.s)) = << "n", "u", "l", "l" >>)

\* a list that is empty or holds only null-equivalent elements
HollowList(v) ==
    IsList(v) /\ \A i \in 1..Len(v.xs) : NullEquivalent(v.xs[i])

\* the JSON object the service sent, as clean_empty_lists_as_none gets it
SentObject(resp) ==
    /\ resp.k = "text"
    /\ ~NotJson(resp)
    /\ IsDict(resp.doc)

\* C25: after clean_empty_lists_as_none, every top-level field whose value
\* was an empty list, or a list containing only null or "null"-equivalent
\* elements, is null (not []); a list with at least one other element stays
\* a list.
C25_HollowListsBecomeNull ==
    (xPc = "returned" /\ SentObject(xResp)) =>
        LET data    == xResp.doc
            cleaned == clean_empty_lists_as_none(data)
        IN  /\ IsDict(cleaned)
            /\ DOMAIN cleaned.d = DOMAIN data.d
            /\ \A k \in DOMAIN data.d :
                  /\ HollowList(data.d[k]) => cleaned.d[k] = None
                  /\ (IsList(data.d[k]) /\ ~HollowList(data.d[k]))
                        => (IsList(cleaned.d[k]) /\ cleaned.d[k].xs # << >>)
                  /\ (~IsAllNullRecord(xOut) /\ k \notin LinkKeys)
                        => xOut.d[k] = cleaned.d[k]

\* a record in which one list field held only nulls and is now null, and
\* another held a real element and is still a list
C25_Witness ==
    /\ xPc = "returned"
    /\ SentObject(xResp)
    /\ "skills" \in DOMAIN xResp.doc.d
    /\ xResp.doc.d["skills"] = List(<< None, Str(<< "n", "u", "l", "l" >>) >>)
    /\ xOut.d["skills"] = None
    /\ IsList(xResp.doc.d["projects"])
    /\ IsList(xOut.d["projects"])

\* a cell that is no list: null, a missing value, a number, a string or
\* an object
NonListCell(v) == ~IsList(v)

\* C26: sanitize_dataframe_for_bigquery never errors on a non-list value in
\* a designated list column: a null, a scalar, a string or an object in
\* such a column is replaced by an empty list.
C26_NonListCellsBecomeEmpty ==
    (fPc # "idle" /\ fIn.f = "sanitize") =>
        /\ (\A r \in 1..Len(fIn.rows) : NonListCell(fIn.rows[r]["projects"]))
              => fPc = "returned"
        /\ fPc = "returned" =>
              \A r \in 1..Len(fIn.rows) : \A col \in SanitizedColumns :
                  NonListCell(fIn.rows[r][col])
                      => fOut.rows[r][col] = List(<< >>)

\* a table came back in which a string stood in a list column, an object in
\* the projects column, and a number and a null in those of the second row
C26_Witness ==
    /\ fPc = "returned" /\ fIn.f = "sanitize"
    /\ Len(fIn.rows) = 2
    /\ IsStr(fIn.rows[1]["skills"])
    /\ IsDict(fIn.rows[1]["projects"])
    /\ fIn.rows[2]["education"] = Num(5)
    /\ fIn.rows[2]["projects"] = None
    /\ fOut.rows[1]["skills"] = List(<< >>)
    /\ fOut.rows[1]["projects"] = List(<< >>)

\* a result that gives the table no row: a ProcessingError, or a record
\* with no value in any of the 13 schema fields
NoRow(r) ==
    \/ "error" \in DOMAIN r.d
    \/ \A key \in SchemaKeys : key \notin DOMAIN r.d \/ r.d[key] = None

\* all tasks have run and none of them gave the table a row
EmptyTable ==
    /\ files # << >>
    /\ Len(results) = Len(files)
    /\ \A i \in 1..Len(results) : NoRow(results[i])

\* C27: when the table is empty after dropping all-null rows (every file
\* failed or produced an all-null record), process_cvs performs no
\* enrichment lookup, no warehouse load and no notification, and returns an
\* empty records list together with the errors.
C27_EmptyTableSkipsLoad ==
    EmptyTable =>
        /\ calls.geocode = 0 /\ calls.genderize = 0
        /\ calls.load = 0 /\ calls.email = 0
        /\ loadResult = "none" /\ warehouse = << >>
        /\ bPc \in { "tasks", "returned" }
        /\ bPc = "returned" =>
              /\ bOut.jsonCv = << >>
              /\ bOut.errors = Errors(results)

\* a batch of a file that failed and a file whose record is all null has
\* returned
C27_Witness ==
    /\ bPc = "returned"
    /\ EmptyTable
    /\ Len(files) = 2
    /\ Len(bOut.errors) = 1
    /\ \E i \in 1..2 : ~HasError(results[i])

\* C29: every entry of the errors list returned by process_cvs is a
\* ProcessingError produced by a failed per-file task: it has both a file
\* and an error field and its file names an input of the batch; every result
\* returned by a successful structured extraction, whatever keys the
\* completion service put in it, is classified as a record and never as an
\* error.
C29_ErrorsAreTaskFailures ==
    bPc = "returned" =>
        /\ \A j \in 1..Len(bOut.errors) :
              /\ DOMAIN bOut.errors[j].d = { "error", "file" }
              /\ \E i \in Failing :
                    bOut.errors[j].d["file"] = Str(files[i].filename)
        /\ Len(bOut.errors) = Cardinality(Failing)

\* the files whose result went to the errors list
InErrors == { i \in 1..Len(results) : "error" \in DOMAIN results[i].d }

\* the result has no value in any of the 13 schema fields
NullInAllFields(r) ==
    \A key \in SchemaKeys : key \notin DOMAIN r.d \/ r.d[key] = None

\* the files whose result became a row of the returned records
InRecords ==
    { i \in 1..Len(results) : i \notin InErrors /\ ~NullInAllFields(results[i]) }

\* the file behind the j-th returned record
FileOfRecord(j) ==
    CHOOSE i \in InRecords : Cardinality({ k \in InRecords : k <= i }) = j

\* C30: for every batch of N files, each input file contributes to at most
\* one of jsonCv and errors, never to both and never more than once (so
\* |jsonCv| + |errors| <= N); a file contributes to neither only when its
\* extracted record is null in all 13 schema fields.
C30_EachFileAtMostOnce ==
    bPc = "returned" =>
        /\ Len(results) = Len(files)
        /\ Len(bOut.jsonCv) + Len(bOut.errors) <= Len(files)
        /\ Len(bOut.errors) = Cardinality(InErrors)
        /\ bOut.errors = KeepFrom(results, InErrors, 1)
        /\ Len(bOut.jsonCv) = Cardinality(InRecords)
        /\ \A j \in 1..Len(bOut.jsonCv) :
              \A key \in SchemaKeys \cap DOMAIN results[FileOfRecord(j)].d :
                  bOut.jsonCv[j].d[key] = results[FileOfRecord(j)].d[key]
        /\ \A i \in 1..Len(files) :
              (i \notin InErrors /\ i \notin InRecords)
                  => NullInAllFields(results[i])

\* a batch of three has returned: one file is in the records, one in the
\* errors, and one, with an all-null record, in neither
C30_Witness ==
    /\ bPc = "returned"
    /\ Len(files) = 3
    /\ Len(bOut.jsonCv) = 1
    /\ Len(bOut.errors) = 1
    /\ Cardinality((1..3) \ (InErrors \cup InRecords)) = 1

(***************************************************************************)
(* Claims: Credential Selector                                             *)
(***************************************************************************)

\* the call recorded in g found no usable cache: empty, TTL or more old, or
\* force_refresh set
WasMiss(g) ==
    \/ g.force
    \/ g.seenKey = NoKey
    \/ g.seenAt = NoTime
    \/ g.calledAt - g.seenAt >= TTL

AllRejected(statuses) == \A j \in 1..Len(statuses) : statuses[j] # "200"

\* C6: a call without force_refresh that finds a cached key checked less
\* than the TTL ago returns that key, sends no probe, and leaves the cached
\* key and checked_at as they are.
C6_FreshCacheHit ==
    [][\A c \in Callers :
         ( /\ gk[c].pc # "probing"
           /\ gk'[c] # gk[c]
           /\ ~gk'[c].force
           /\ active_api_key # NoKey
           /\ key_checked_at # NoTime
           /\ now - key_checked_at < TTL )
         => ( /\ gk'[c].pc = "returned"
              /\ gk'[c].result = active_api_key
              /\ gk'[c].probed = << >>
              /\ gk'[c].statuses = << >>
              /\ active_api_key' = active_api_key
              /\ key_checked_at' = key_checked_at )]_vars

C6_Witness ==
    \E c \in Callers :
        /\ gk[c].pc = "returned"
        /\ ~gk[c].force
        /\ gk[c].probed = << >>
        /\ gk[c].seenKey # NoKey
        /\ gk[c].result = gk[c].seenKey
        /\ gk[c].calledAt > gk[c].seenAt
        /\ gk[c].calledAt - gk[c].seenAt < TTL

\* C7: a call that finds the cache empty, TTL or more old, or is forced,
\* runs one probe sequence: the keys are probed in list order, each at most
\* once, and a key is returned only after its probe succeeded in that call.
C7_OneProbeSequence ==
    \A c \in Callers :
        (gk[c].pc # "idle" /\ WasMiss(gk[c])) =>
            /\ Len(gk[c].probed) \in 1..Len(API_KEYS)
            /\ \A j \in 1..Len(gk[c].probed) : gk[c].probed[j] = j
            /\ gk[c].pc = "returned" =>
                  /\ Len(gk[c].statuses) = Len(gk[c].probed)
                  /\ gk[c].statuses[Len(gk[c].statuses)] = "200"
                  /\ gk[c].result = API_KEYS[Len(gk[c].probed)]

C7_Witness ==
    \E c \in Callers :
        /\ gk[c].pc = "returned"
        /\ ~gk[c].force
        /\ gk[c].seenKey = API_KEYS[1]
        /\ gk[c].calledAt - gk[c].seenAt >= TTL
        /\ gk[c].probed = << 1, 2 >>
        /\ gk[c].result = API_KEYS[2]

\* C8: the first key whose probe returns status 200 is written to the cache
\* with the current time and returned at once; the call probes no later key.
C8_FirstSuccessWins ==
    [][\A c \in Callers :
         /\ ( /\ gk[c].pc = "probing"
              /\ Len(gk'[c].statuses) = Len(gk[c].statuses) + 1
              /\ gk'[c].statuses[Len(gk'[c].statuses)] = "200" )
            => ( /\ gk'[c].pc = "returned"
                 /\ gk'[c].probed = gk[c].probed
                 /\ AllRejected(gk[c].statuses)
                 /\ gk'[c].result = API_KEYS[Len(gk[c].probed)]
                 /\ active_api_key' = API_KEYS[Len(gk[c].probed)]
                 /\ key_checked_at' = now )
         /\ (gk[c].pc = "returned" /\ gk'[c] # gk[c])
            => gk'[c].statuses = << >>]_vars

C8_Witness ==
    \E c \in Callers :
        /\ gk[c].pc = "returned"
        /\ gk[c].statuses = << "429", "200" >>
        /\ gk[c].result = API_KEYS[2]
        /\ active_api_key = API_KEYS[2]
        /\ key_checked_at = now
        /\ now > gk[c].calledAt

\* C9: when every key is rejected or its probe errors, the call raises
\* after probing each key exactly once, without starting the list again.
C9_AllRejectedRaises ==
    \A c \in Callers :
        /\ gk[c].pc = "raised" =>
              /\ gk[c].probed = [j \in 1..Len(API_KEYS) |-> j]
              /\ Len(gk[c].statuses) = Len(API_KEYS)
              /\ AllRejected(gk[c].statuses)
        /\ (Len(gk[c].statuses) = Len(API_KEYS) /\ AllRejected(gk[c].statuses))
              => gk[c].pc = "raised"

C9_Witness ==
    \E c \in Callers :
        /\ gk[c].pc = "raised"
        /\ gk[c].statuses = << "exception", "429" >>

\* C10: a call in which all keys are rejected resets the cache to its null
\* state, key = null and checked_at = null.
C10_ResetOnTotalFailure ==
    [][\A c \in Callers :
         (gk[c].pc = "probing" /\ gk'[c].pc = "raised")
         => (active_api_key' = NoKey /\ key_checked_at' = NoTime)]_vars

=============================================================================
